---- MODULE Spec2Model ----
(***************************************************************************)
(* A model of the crypto-chat-app data layer: the direct-client rate       *)
(* limiter and the cryptoAPI request/response interceptors, the ApiManager *)
(* limiter and response cache, the message parser and response generator,  *)
(* and the usePortfolio store.                                             *)
(*                                                                         *)
(* Times are milliseconds, as Date.now() returns them.  Each component has *)
(* its own specification (SpecLimiter, SpecMgrLimiter, ...) over the       *)
(* variables it owns; the other variables keep their initial values.       *)
(***************************************************************************)
EXTENDS Integers, Sequences, FiniteSets, Bags, TLC

VARIABLES
    now,          \* the value Date.now() returns
    requests,     \* RateLimiter.requests of the cryptoAPI module (10/min)
    attempts,     \* observation: every pass through api.interceptors.request
    rateLimiter,  \* ApiManager.rateLimiter: the keys of the Map (50/min)
    admitLog,     \* observation: the clock reading of every request handleRateLimit let through
    cache,        \* ApiManager.cache: key -> {data, timestamp}
    nextSweep,    \* when the setInterval callback running cleanupCache is due
    puts,         \* observation: the last setCache of every key
    lastGet,      \* observation: the last getFromCache and what it returned
    inflight,     \* the cryptoAPI calls that passed the limiter and await the network
    lastResult,   \* observation: what the last settled cryptoAPI call gave its caller
    mgrPending,   \* the makeRequest calls of the ApiManager that await the network
    mgrLast,      \* observation: how the last makeRequest or searchCoins call began
    message,      \* the text last handed to parseMessage
    parsedIntent, \* what parseMessage returned for it
    holdings,     \* usePortfolio: the holdings state
    portfolioValue, \* usePortfolio: the portfolioValue state
    loading,      \* usePortfolio: the loading state
    error,        \* usePortfolio: the error state
    storage,      \* localStorage['crypto-chat-portfolio']
    refreshes,    \* the calculatePortfolioValue calls that await getMultiplePrices
    interval,     \* the setInterval of the refresh effect: when it is due, and its callback's holdings
    pfLast,       \* observation: after a step that completed a refresh, what addHolding had changed during its flight
    added,        \* observation: per coinId, the sum of the amounts addHolding was called with
    sinceReset,   \* observation: per limiter, the requests admitted since one found every timestamp expired; the last attempt
    boot,         \* the start of the page: how far the mount of usePortfolio has got, and what it found stored
    messages,     \* ChatInterface: the messages state
    isProcessing, \* ChatInterface: the isProcessing state
    responding,   \* the handleSendMessage calls that await generateResponse
    chatLast,     \* observation: the last reply, its intent and the cryptoAPI calls made for it
    voice         \* the voice input: the recognition session and the promise of speechService, the indicators of ChatInterface and InputArea, the delayed sends

limVars == <<requests, attempts>>
mgrLimVars == <<rateLimiter, admitLog>>
cacheVars == <<cache, nextSweep, puts, lastGet>>
clientVars == <<inflight, lastResult>>
mgrVars == <<mgrPending, mgrLast>>
parseVars == <<message, parsedIntent>>
portfolioVars == <<holdings, portfolioValue, loading, error, storage, refreshes, interval, pfLast>>
chatVars == <<messages, isProcessing, responding, chatLast>>
ledgerVars == <<added>>
persistVars == <<boot>>
resetVars == <<sinceReset>>
voiceVars == <<voice>>
frontVars == <<parseVars, portfolioVars, chatVars, ledgerVars, persistVars, resetVars, voiceVars>>
vars == <<now, limVars, mgrLimVars, cacheVars, clientVars, mgrVars, frontVars>>

\* What the actions of each component leave alone.
notLimiter == <<mgrLimVars, cacheVars, clientVars, mgrVars, frontVars>>
notMgrLimiter == <<limVars, cacheVars, clientVars, mgrVars, frontVars>>
notCache == <<limVars, mgrLimVars, clientVars, mgrVars, frontVars>>
notClient == <<attempts, mgrLimVars, cacheVars, mgrVars, frontVars>>
notParse ==
    <<now, limVars, mgrLimVars, cacheVars, clientVars, mgrVars, portfolioVars, chatVars, ledgerVars,
      persistVars, resetVars, voiceVars>>
notPersist ==
    <<attempts, mgrLimVars, cacheVars, clientVars, mgrVars, parseVars, chatVars, ledgerVars,
      resetVars, voiceVars>>
notLedger ==
    <<attempts, mgrLimVars, cacheVars, clientVars, mgrVars, parseVars, chatVars, persistVars,
      resetVars, voiceVars>>
notPortfolio == <<notLedger, ledgerVars>>
notChatVoice ==
    <<attempts, mgrLimVars, cacheVars, clientVars, mgrVars, parseVars, ledgerVars, persistVars,
      resetVars>>
notChat == <<notChatVoice, voiceVars>>
notReset ==
    <<attempts, admitLog, cacheVars, clientVars, mgrVars, parseVars, portfolioVars, chatVars,
      ledgerVars, persistVars, voiceVars>>
notMgr == <<limVars, admitLog, nextSweep, puts, lastGet, clientVars, frontVars>>

(***************************************************************************)
(* Helpers on sequences.                                                   *)
(***************************************************************************)
Range(s) == {s[i] : i \in 1..Len(s)}

RECURSIVE SeqSum(_)
SeqSum(s) == IF s = <<>> THEN 0 ELSE Head(s) + SeqSum(Tail(s))

(***************************************************************************)
(* The direct-client limiter: class RateLimiter and the request            *)
(* interceptor of the axios instance `api`.                                *)
(***************************************************************************)
maxRequests == 10
windowMs == 60000

\* The advances of the clock between two events, and the bounds of a run.
Advances == {30000, 60000}
MaxClock == 120000
MaxAttempts == 12

\* The comparison of canMakeRequest() off by one: a full window still admits.
canMakeRequest_Mutant(reqs, t) ==
    LET kept == SelectSeq(reqs, LAMBDA time : t - time < windowMs)
    IN  [requests |-> kept, ok |-> Len(kept) <= maxRequests]

\* The filter of canMakeRequest() off by one: a reading exactly windowMs old
\* is kept.
canMakeRequest_KeepsOld(reqs, t) ==
    LET kept == SelectSeq(reqs, LAMBDA time : t - time <= windowMs)
    IN  [requests |-> kept, ok |-> Len(kept) < maxRequests]

\* canMakeRequest(): drop the readings that left the window, then compare
\* the count with the ceiling.  Returns the filtered list and the answer.
canMakeRequest(reqs, t) ==
    LET kept == SelectSeq(reqs, LAMBDA time : t - time < windowMs)
    IN  [requests |-> kept, ok |-> Len(kept) < maxRequests]

\* recordRequest(): push the current reading.
recordRequest(reqs, t) == Append(reqs, t)

\* The request interceptor recording every request it sees, the rejected
\* ones too.
RequestInterceptor_RecordsDenied(reqs, t) ==
    LET c == canMakeRequest(reqs, t)
    IN  [requests |-> recordRequest(c.requests, t), rejected |-> ~c.ok]

\* api.interceptors.request: reject when canMakeRequest() says no, else
\* record and pass the config on.
RequestInterceptor(reqs, t) ==
    LET c == canMakeRequest(reqs, t)
    IN  IF ~c.ok
        THEN [requests |-> c.requests, rejected |-> TRUE]
        ELSE [requests |-> recordRequest(c.requests, t), rejected |-> FALSE]

LimInit ==
    /\ requests = <<>>
    /\ attempts = <<>>

NoAttempt == [limiter |-> "none", expired |-> FALSE, admitted |-> TRUE, recorded |-> 0]

ResetInit == sinceReset = [api |-> 0, mgr |-> 0, last |-> NoAttempt]

MgrLimInit ==
    /\ rateLimiter = {}
    /\ admitLog = <<>>

(***************************************************************************)
(* The orchestration-level limiter: ApiManager.handleRateLimit, the        *)
(* request interceptor of ApiManager.axiosInstance.  this.rateLimiter is a *)
(* Map keyed by the clock reading, so only its key set carries state.      *)
(***************************************************************************)
maxRequestsPerMinute == 50

\* A burst advances the clock by one millisecond per request; a pause lets
\* the whole window elapse.
MgrAdvances == {1, 60000}
MgrMaxClock == 60060
MaxMgrAttempts == 53
\* How many requests may arrive in a millisecond that already saw one.
MaxSameMs == 1

\* handleRateLimit(config): delete the keys older than the window, throw
\* when the Map is full, else set(now, true).
handleRateLimit(rl, t) ==
    LET windowStart == t - 60000
        kept == {ts \in rl : ~(ts < windowStart)}
    IN  IF Cardinality(kept) >= maxRequestsPerMinute
        THEN [rateLimiter |-> kept, thrown |-> TRUE]
        ELSE [rateLimiter |-> kept \cup {t}, thrown |-> FALSE]

(***************************************************************************)
(* The response cache of the ApiManager: getCacheKey, getFromCache,        *)
(* setCache, cleanupCache and the setInterval that runs the sweep.         *)
(***************************************************************************)
cacheTimeout == 300000
sweepInterval == 600000

\* A parameter of a request: its name and its value as JSON.stringify
\* prints it (a string in quotes, a boolean or a number bare).
Param(name, tag, text) == [name |-> name, tag |-> tag, text |-> text]

JsonValue(p) == IF p.tag = "string" THEN "\"" \o p.text \o "\"" ELSE p.text

\* JSON.stringify of a plain object: the properties in insertion order.
RECURSIVE JsonMembers(_)
JsonMembers(params) ==
    IF params = <<>> THEN ""
    ELSE "\"" \o Head(params).name \o "\":" \o JsonValue(Head(params))
         \o (IF Tail(params) = <<>> THEN "" ELSE ",")
         \o JsonMembers(Tail(params))

JSONstringify(params) == "{" \o JsonMembers(params) \o "}"

\* getCacheKey(url, params): `${url}_${JSON.stringify(params)}`.
getCacheKey(url, params) == url \o "_" \o JSONstringify(params)

\* The requests the model issues: a price lookup whose two parameters are
\* given in either order, the trending list, and a search.
IdsParam == Param("ids", "string", "bitcoin")
CurrencyParam == Param("vs_currencies", "string", "usd")
PriceParams == <<IdsParam, CurrencyParam>>
PriceParamsSwapped == <<CurrencyParam, IdsParam>>
QueryParam(q) == Param("query", "string", q)
SearchQueries == {"b", "btc"}

MgrRequests ==
    { [url |-> "/simple/price", params |-> PriceParams],
      [url |-> "/simple/price", params |-> PriceParamsSwapped],
      [url |-> "/search/trending", params |-> <<>>] }

SearchRequests ==
    { [url |-> "/search", params |-> <<QueryParam(q)>>] : q \in SearchQueries }

CacheKeys == {getCacheKey(r.url, r.params) : r \in MgrRequests \cup SearchRequests}

\* The response bodies the data source returns.
Datas == {"d1", "d2"}
Null == "null"
NoEntry == [data |-> Null, timestamp |-> -1]

\* The test of getFromCache() off by one: an entry exactly cacheTimeout old
\* still counts as fresh.
getFromCache_Mutant(c, key, t) ==
    LET cached == c[key]
    IN  IF cached # NoEntry /\ t - cached.timestamp <= cacheTimeout
        THEN [cache |-> c, result |-> cached.data]
        ELSE [cache |-> [c EXCEPT ![key] = NoEntry], result |-> Null]

\* getFromCache(key): the data of a fresh entry; else delete the key and
\* return null.
getFromCache(c, key, t) ==
    LET cached == c[key]
    IN  IF cached # NoEntry /\ t - cached.timestamp < cacheTimeout
        THEN [cache |-> c, result |-> cached.data]
        ELSE [cache |-> [c EXCEPT ![key] = NoEntry], result |-> Null]

\* setCache(key, data): store the data with the current reading.
setCache(c, key, data, t) == [c EXCEPT ![key] = [data |-> data, timestamp |-> t]]

\* The test of cleanupCache() off by one: an entry exactly cacheTimeout old
\* is left in the Map.
cleanupCache_Strict(c, t) ==
    [k \in DOMAIN c |->
        IF c[k] # NoEntry /\ t - c[k].timestamp > cacheTimeout
        THEN NoEntry ELSE c[k]]

\* getCacheStats(): the size of the Map, and how many of its entries are
\* younger than cacheTimeout and how many are not.
getCacheStats(c, t) ==
    LET entries == {k \in DOMAIN c : c[k] # NoEntry}
        validEntries == {k \in entries : t - c[k].timestamp < cacheTimeout}
    IN  [total |-> Cardinality(entries),
         valid |-> Cardinality(validEntries),
         expired |-> Cardinality(entries \ validEntries)]

\* cleanupCache(): delete every entry that is cacheTimeout old or older.
cleanupCache(c, t) ==
    [k \in DOMAIN c |->
        IF c[k] # NoEntry /\ t - c[k].timestamp >= cacheTimeout
        THEN NoEntry ELSE c[k]]

NoGet == [key |-> "none", result |-> Null, at |-> 0, put |-> NoEntry]

CacheInit ==
    /\ cache = [k \in CacheKeys |-> NoEntry]
    /\ nextSweep = sweepInterval
    /\ puts = [k \in CacheKeys |-> NoEntry]
    /\ lastGet = NoGet

(***************************************************************************)
(* ApiManager.makeRequest and ApiManager.searchCoins.                      *)
(***************************************************************************)
\* What the data source answers to a request of the ApiManager: a body, an
\* empty (falsy) body, or a failure.
MgrResponses ==
    { [ok |-> TRUE, data |-> "d1"],
      [ok |-> TRUE, data |-> Null],
      [ok |-> FALSE, data |-> Null] }

\* makeRequest with the request interceptor run before the cache lookup: a
\* request answered from the cache has taken a slot of the limiter.
makeRequestStart_AdmitFirst(c, rl, url, params, useCache, t) ==
    LET cacheKey == getCacheKey(url, params)
        g == IF useCache THEN getFromCache(c, cacheKey, t)
             ELSE [cache |-> c, result |-> Null]
        a == handleRateLimit(rl, t)
    IN  IF a.thrown
        THEN [cache |-> c, rateLimiter |-> a.rateLimiter, outcome |-> "denied"]
        ELSE IF useCache /\ g.result # Null
        THEN [cache |-> g.cache, rateLimiter |-> a.rateLimiter, outcome |-> "hit"]
        ELSE [cache |-> g.cache, rateLimiter |-> a.rateLimiter, outcome |-> "sent"]

\* makeRequest(url, params, useCache) up to `await axiosInstance.get`: the
\* cache lookup when useCache is set, and, on a miss, handleRateLimit in
\* the request interceptor.
makeRequestStart(c, rl, url, params, useCache, t) ==
    LET cacheKey == getCacheKey(url, params)
        g == IF useCache THEN getFromCache(c, cacheKey, t)
             ELSE [cache |-> c, result |-> Null]
        a == handleRateLimit(rl, t)
    IN  IF useCache /\ g.result # Null
        THEN [cache |-> g.cache, rateLimiter |-> rl, outcome |-> "hit"]
        ELSE [cache |-> g.cache, rateLimiter |-> a.rateLimiter,
              outcome |-> IF a.thrown THEN "denied" ELSE "sent"]

\* makeRequest after the await: a successful response with a body is stored
\* when useCache is set.
makeRequestSettle(c, cacheKey, useCache, response, t) ==
    IF response.ok /\ useCache /\ response.data # Null
    THEN setCache(c, cacheKey, response.data, t)
    ELSE c

\* searchCoins(query) with the flag of makeRequest set: searches are cached.
searchCoins_Mutant(query) ==
    [short |-> Len(query) < 2, url |-> "/search",
     params |-> <<QueryParam(query)>>, useCache |-> TRUE]

\* searchCoins(query): an empty or one-letter query is answered with
\* {coins: []} at once; any other goes to makeRequest('/search', {query},
\* false).
searchCoins(query) ==
    [short |-> Len(query) < 2, url |-> "/search",
     params |-> <<QueryParam(query)>>, useCache |-> FALSE]

NoCall == [from |-> "none", outcome |-> "none"]

MgrInit ==
    /\ mgrPending = EmptyBag
    /\ mgrLast = NoCall

(***************************************************************************)
(* The Data Client: the axios instance `api` with its two interceptors and *)
(* the six operations of cryptoAPI.                                        *)
(***************************************************************************)
\* An error as the handlers see it: its message, error.code and
\* error.response.status (0 when there is no response).
Error(text) == [message |-> text, code |-> "", status |-> 0]
AxiosError(code, status) == [message |-> "AxiosError", code |-> code, status |-> status]
NoError == Error("")

RateLimitMessage == "Rate limit exceeded. Please wait a moment."
UpstreamRateLimitMessage == "API rate limit exceeded. Please try again in a minute."
TimeoutMessage == "Request timeout. Please check your connection."
NetworkMessage == "Network error. Please check your internet connection."
NotFoundMessage(coinId) == "Cryptocurrency \"" \o coinId \o "\" not found"

\* What the transport answers to a dispatched request: a 2xx response whose
\* body has or lacks the record asked for, a non-2xx status, a timeout
\* (ECONNABORTED) or no connection.
NetOutcomes ==
    { [ok |-> TRUE, body |-> "record", error |-> NoError],
      [ok |-> TRUE, body |-> "norecord", error |-> NoError],
      [ok |-> FALSE, body |-> "", error |-> AxiosError("ERR_BAD_REQUEST", 429)],
      [ok |-> FALSE, body |-> "", error |-> AxiosError("ERR_BAD_RESPONSE", 500)],
      [ok |-> FALSE, body |-> "", error |-> AxiosError("ECONNABORTED", 0)],
      [ok |-> FALSE, body |-> "", error |-> AxiosError("ERR_NETWORK", 0)] }

\* The rejected handler of api.interceptors.response.
responseRejected(err) ==
    IF err.status = 429 THEN Error(UpstreamRateLimitMessage)
    ELSE IF err.code = "ECONNABORTED" THEN Error(TimeoutMessage)
    ELSE IF err.status = 0 THEN Error(NetworkMessage)
    ELSE err

\* api.get() up to the dispatch.  axios runs the handlers as one promise
\* chain, request interceptor, dispatch, response interceptor: a rejection
\* from the request interceptor skips the dispatch and arrives at the
\* rejected handler of the response interceptor like any other error.
apiGetStart(reqs, t) ==
    LET r == RequestInterceptor(reqs, t)
    IN  IF r.rejected
        THEN [requests |-> r.requests, sent |-> FALSE,
              error |-> responseRejected(Error(RateLimitMessage))]
        ELSE [requests |-> r.requests, sent |-> TRUE, error |-> NoError]

\* api.get() from the transport's answer on: what the awaiting operation
\* receives.
apiGetSettle(outcome) ==
    IF outcome.ok THEN [ok |-> TRUE, body |-> outcome.body, error |-> NoError]
    ELSE [ok |-> FALSE, body |-> "", error |-> responseRejected(outcome.error)]

\* The calls the model issues, one per operation of cryptoAPI.
ClientCalls ==
    { [op |-> "getCurrentPrice", arg |-> "bitcoin"],
      [op |-> "getTrendingCoins", arg |-> ""],
      [op |-> "getCoinDetails", arg |-> "bitcoin"],
      [op |-> "getHistoricalData", arg |-> "bitcoin"],
      [op |-> "searchCoins", arg |-> "btc"],
      [op |-> "getMultiplePrices", arg |-> "bitcoin"] }

\* getCurrentPrice without a look at the record: it throws for every
\* response.
operationResult_NeverFound(call, settled) ==
    IF ~settled.ok THEN settled.error
    ELSE IF call.op = "getCurrentPrice"
         THEN Error(NotFoundMessage(call.arg))
         ELSE NoError

\* The body of an operation after `await api.get(...)`: getCurrentPrice
\* throws when response.data has no record of the coin; the catch block of
\* every operation logs and rethrows.
operationResult(call, settled) ==
    IF ~settled.ok THEN settled.error
    ELSE IF call.op = "getCurrentPrice" /\ settled.body = "norecord"
         THEN Error(NotFoundMessage(call.arg))
         ELSE NoError

\* The category of an error that reaches the caller, by its message and status.
ErrorKind(err) ==
    IF err = NoError THEN "None"
    ELSE IF err.message = RateLimitMessage THEN "RateLimited"
    ELSE IF err.message = UpstreamRateLimitMessage THEN "UpstreamRateLimit"
    ELSE IF err.message = TimeoutMessage THEN "Timeout"
    ELSE IF err.message = NetworkMessage THEN "NetworkUnreachable"
    ELSE IF err.status # 0 THEN "UpstreamStatus"
    ELSE "NotFound"

NoResult == [call |-> [op |-> "none", arg |-> ""], error |-> NoError,
             at |-> 0, network |-> FALSE, denied |-> FALSE]

ClientInit ==
    /\ inflight = EmptyBag
    /\ lastResult = NoResult

(***************************************************************************)
(* Strings and regular expressions, as the JavaScript engine runs them.    *)
(***************************************************************************)
CharAt(s, i) == IF i >= 1 /\ i <= Len(s) THEN SubSeq(s, i, i) ELSE ""

UpperLetters == "ABCDEFGHIJKLMNOPQRSTUVWXYZ"
LowerLetters == "abcdefghijklmnopqrstuvwxyz"
DigitChars == {"0", "1", "2", "3", "4", "5", "6", "7", "8", "9"}
SpaceChars == {" ", "\t", "\n"}
LetterChars ==
    {CharAt(UpperLetters, k) : k \in 1..26} \cup {CharAt(LowerLetters, k) : k \in 1..26}
WordChars == LetterChars \cup DigitChars \cup {"_"}

LowerOf ==
    [c \in {CharAt(UpperLetters, k) : k \in 1..26} |->
        CharAt(LowerLetters, CHOOSE k \in 1..26 : CharAt(UpperLetters, k) = c)]
UpperOf ==
    [c \in {CharAt(LowerLetters, k) : k \in 1..26} |->
        CharAt(UpperLetters, CHOOSE k \in 1..26 : CharAt(LowerLetters, k) = c)]

\* String.prototype.toLowerCase
RECURSIVE toLowerCase(_)
toLowerCase(s) ==
    IF s = "" THEN ""
    ELSE LET c == CharAt(s, 1)
         IN  (IF c \in DOMAIN LowerOf THEN LowerOf[c] ELSE c)
                 \o toLowerCase(SubSeq(s, 2, Len(s)))

\* String.prototype.toUpperCase
RECURSIVE toUpperCase(_)
toUpperCase(s) ==
    IF s = "" THEN ""
    ELSE LET c == CharAt(s, 1)
         IN  (IF c \in DOMAIN UpperOf THEN UpperOf[c] ELSE c)
                 \o toUpperCase(SubSeq(s, 2, Len(s)))

\* String.prototype.trim
RECURSIVE trimStart(_)
trimStart(s) ==
    IF s # "" /\ CharAt(s, 1) \in SpaceChars THEN trimStart(SubSeq(s, 2, Len(s))) ELSE s

RECURSIVE trimEnd(_)
trimEnd(s) ==
    IF s # "" /\ CharAt(s, Len(s)) \in SpaceChars THEN trimEnd(SubSeq(s, 1, Len(s) - 1)) ELSE s

trim(s) == trimEnd(trimStart(s))

\* The nodes of a regular expression: a literal, a character class, a
\* concatenation, an alternation (?:a|b), r?, r+, r+?, r*, a capturing group,
\* ^, $, \b and (?!\w).
Lit(text) == [t |-> "lit", text |-> text]
Cls(name) == [t |-> "class", name |-> name]
Cat(xs) == [t |-> "cat", xs |-> xs]
Alt(xs) == [t |-> "alt", xs |-> xs]
Opt(r) == [t |-> "opt", r |-> r]
Plus(r) == [t |-> "plus", r |-> r, lazy |-> FALSE]
LazyPlus(r) == [t |-> "plus", r |-> r, lazy |-> TRUE]
Star(r) == [t |-> "star", r |-> r, lazy |-> FALSE]
Group(n, r) == [t |-> "group", n |-> n, r |-> r]
Bol == [t |-> "bol"]
Eol == [t |-> "eol"]
WordBoundary == [t |-> "b"]
NotWordAhead == [t |-> "notword"]

\* The classes: . \s \d \w and [^\w\s]
InClass(name, c) ==
    CASE name = "any" -> c # "" /\ c # "\n"
      [] name = "s" -> c \in SpaceChars
      [] name = "d" -> c \in DigitChars
      [] name = "w" -> c \in WordChars
      [] name = "notws" -> c # "" /\ c \notin WordChars /\ c \notin SpaceChars

NoCaps == <<<<0, 0>>, <<0, 0>>>>

\* A thread of the backtracking matcher: the nodes still to match, the
\* position in the text and the captures so far.
Thread(todo, i, caps) == [todo |-> todo, i |-> i, c |-> caps]
Mark(n, side) == [t |-> "mark", n |-> n, side |-> side]
LazyStar(r) == [t |-> "star", r |-> r, lazy |-> TRUE]

\* One step of a thread on text s: the threads that replace it, the one
\* backtracking tries first at the head.  A greedy quantifier tries one more
\* repetition first, a lazy one tries to go on first.
Step(s, th) ==
    LET r == Head(th.todo)
        k == Tail(th.todo)
        i == th.i
        go == <<Thread(k, i, th.c)>>
    IN  CASE r.t = "lit" ->
                IF i + Len(r.text) - 1 <= Len(s) /\ SubSeq(s, i, i + Len(r.text) - 1) = r.text
                THEN <<Thread(k, i + Len(r.text), th.c)>> ELSE <<>>
          [] r.t = "class" ->
                IF InClass(r.name, CharAt(s, i)) THEN <<Thread(k, i + 1, th.c)>> ELSE <<>>
          [] r.t = "bol" -> IF i = 1 THEN go ELSE <<>>
          [] r.t = "eol" -> IF i = Len(s) + 1 THEN go ELSE <<>>
          [] r.t = "b" ->
                IF (CharAt(s, i - 1) \in WordChars) # (CharAt(s, i) \in WordChars)
                THEN go ELSE <<>>
          [] r.t = "notword" -> IF CharAt(s, i) \notin WordChars THEN go ELSE <<>>
          [] r.t = "cat" -> <<Thread(r.xs \o k, i, th.c)>>
          [] r.t = "alt" -> [j \in 1..Len(r.xs) |-> Thread(<<r.xs[j]>> \o k, i, th.c)]
          [] r.t = "opt" -> <<Thread(<<r.r>> \o k, i, th.c)>> \o go
          [] r.t = "star" ->
                IF r.lazy THEN go \o <<Thread(<<r.r, r>> \o k, i, th.c)>>
                ELSE <<Thread(<<r.r, r>> \o k, i, th.c)>> \o go
          [] r.t = "plus" ->
                <<Thread(<<r.r, IF r.lazy THEN LazyStar(r.r) ELSE Star(r.r)>> \o k, i, th.c)>>
          [] r.t = "group" ->
                <<Thread(<<Mark(r.n, 1), r.r, Mark(r.n, 2)>> \o k, i, th.c)>>
          [] r.t = "mark" -> <<Thread(k, i, [th.c EXCEPT ![r.n][r.side] = i])>>

NoMatch == [found |-> FALSE, start |-> 0, e |-> 0, c |-> NoCaps]

\* Backtracking: each thread at the head of the agenda is replaced by its
\* step until the agenda is empty (no match) or its head has matched all its
\* nodes.  Run makes up to 2^n steps.
Settled(agenda) == agenda = <<>> \/ Head(agenda).todo = <<>>

RECURSIVE Run(_, _, _)
Run(s, agenda, n) ==
    IF Settled(agenda) THEN agenda
    ELSE IF n = 0 THEN Step(s, Head(agenda)) \o Tail(agenda)
    ELSE Run(s, Run(s, agenda, n - 1), n - 1)

\* The match of a settled agenda: none when it is empty, else the end and
\* the captures of its head.
FirstWay(final) ==
    IF final = <<>> THEN NoMatch
    ELSE [found |-> TRUE, start |-> 0, e |-> Head(final).i, c |-> Head(final).c]

Backtrack(s, agenda) == FirstWay(Run(s, agenda, 16))

\* The first way pattern r matches s from position i.
MatchAt(r, s, i) == Backtrack(s, <<Thread(<<r>>, i, NoCaps)>>)

\* String.prototype.match and RegExp.prototype.test without the g flag: the
\* leftmost start that matches, and there the first way.
RECURSIVE MatchFrom(_, _, _)
OrLater(m, r, s, i) == IF m.found THEN [m EXCEPT !.start = i] ELSE MatchFrom(r, s, i + 1)

MatchFrom(r, s, i) ==
    IF i > Len(s) + 1 THEN NoMatch ELSE OrLater(MatchAt(r, s, i), r, s, i)

\* ci is the i flag: the patterns spell their letters in lower case, and a
\* letter of the text matches as its lower-case form does.
Match(r, s, ci) == MatchFrom(r, IF ci THEN toLowerCase(s) ELSE s, 1)

\* match[n]
Captured(s, m, n) == SubSeq(s, m.c[n][1], m.c[n][2] - 1)

\* String.prototype.replace with a g-flag pattern of the case-sensitive kind:
\* every match, left to right, replaced by `by`.
RECURSIVE ReplaceAll(_, _, _, _)
ReplaceAt(m, r, s, i, by) ==
    IF m.found /\ m.e > i
    THEN by \o ReplaceAll(r, s, m.e, by)
    ELSE CharAt(s, i) \o ReplaceAll(r, s, i + 1, by)

ReplaceAll(r, s, i, by) ==
    IF i > Len(s) THEN "" ELSE ReplaceAt(MatchAt(r, s, i), r, s, i, by)

\* parseFloat on a string \d+(?:\.\d+)? matched, in thousandths (the
\* amounts of the model have at most three decimals).
DigitValue(c) == CHOOSE v \in 0..9 : CharAt("0123456789", v + 1) = c

RECURSIVE DigitsValue(_)
DigitsValue(s) ==
    IF s = "" THEN 0
    ELSE 10 * DigitsValue(SubSeq(s, 1, Len(s) - 1)) + DigitValue(CharAt(s, Len(s)))

parseFloat(s) ==
    LET dots == {k \in 1..Len(s) : CharAt(s, k) = "."}
        dot == IF dots = {} THEN Len(s) + 1 ELSE CHOOSE k \in dots : TRUE
        whole == SubSeq(s, 1, dot - 1)
        frac == SubSeq(SubSeq(s, dot + 1, Len(s)) \o "000", 1, 3)
    IN  1000 * DigitsValue(whole) + DigitsValue(frac)

(***************************************************************************)
(* utils/messageParser.js: PATTERNS, extractCoinName, extractHoldingInfo   *)
(* and parseMessage; normalizeCoinName of the cryptoAPI module.            *)
(***************************************************************************)
AnyChar == Cls("any")
Spaces == Plus(Cls("s"))
Decimal == Cat(<<Plus(Cls("d")), Opt(Cat(<<Lit("."), Plus(Cls("d"))>>))>>)
Whats == Cat(<<Lit("what"), Opt(Lit("'")), Lit("s")>>)

PRICE_QUERY ==
    Cat(<<Alt(<<Whats, Lit("what is"), Lit("price of"), Lit("current price"),
                Lit("how much is")>>),
          Spaces, Group(1, LazyPlus(AnyChar)),
          Opt(Cat(<<Spaces, Lit("trading"), Spaces, Lit("at")>>)),
          Opt(Lit("?")), Eol>>)

PRICE_SIMPLE == Cat(<<Bol, Group(1, LazyPlus(AnyChar)), Spaces, Lit("price"), Eol>>)

PRICE_TRADING ==
    Cat(<<Alt(<<Whats, Lit("what is")>>), Spaces, Group(1, LazyPlus(AnyChar)),
          Spaces, Lit("trading"), Spaces, Lit("at")>>)

ADD_HOLDING ==
    Cat(<<Alt(<<Lit("i have"), Lit("i own"), Lit("add"), Lit("buy"), Lit("bought")>>),
          Spaces, Group(1, Decimal), Spaces, Group(2, LazyPlus(AnyChar)),
          Opt(Cat(<<Spaces, Alt(<<Cat(<<Lit("coin"), Opt(Lit("s"))>>),
                                  Cat(<<Lit("token"), Opt(Lit("s"))>>)>>)>>)),
          Eol>>)

PORTFOLIO_VALUE ==
    Alt(<<Lit("portfolio"), Lit("my holdings"), Lit("total value"), Lit("how much"),
          Cat(<<Whats, Lit(" my portfolio worth")>>)>>)

TRENDING ==
    Cat(<<Alt(<<Lit("trending"), Lit("hot"), Lit("popular"), Lit("top")>>),
          Star(Cls("s")),
          Opt(Alt(<<Cat(<<Lit("coin"), Opt(Lit("s"))>>), Lit("crypto"),
                    Cat(<<Lit("cryptocurrencie"), Opt(Lit("s"))>>)>>))>>)

CHART_REQUEST ==
    Cat(<<Alt(<<Lit("chart"), Lit("graph"), Lit("price chart"), Lit("show chart")>>),
          Spaces, Opt(Cat(<<Lit("for"), Spaces>>)), Group(1, LazyPlus(AnyChar)),
          Opt(Cat(<<Spaces,
                    Alt(<<Cat(<<Lit("7"), Star(Cls("s")), Lit("day"), Opt(Lit("s"))>>),
                          Lit("week"), Lit("weekly")>>)>>)),
          Eol>>)

INFO_REQUEST ==
    Cat(<<Alt(<<Lit("tell me about"), Lit("info about"), Lit("information about"),
                Lit("what is")>>),
          Spaces, Group(1, Plus(AnyChar))>>)

HELP == Cat(<<Bol, Alt(<<Lit("help"), Lit("what can you do"), Lit("commands")>>), Eol>>)

\* The four word filters and the two character filters of extractCoinName.
FillerWords ==
    Cat(<<WordBoundary,
          Alt(<<Lit("price"), Lit("current"), Lit("trading"), Lit("at"), Lit("now"),
                Lit("today"), Lit("currently")>>),
          WordBoundary>>)
CryptoWords == Cat(<<WordBoundary, Alt(<<Lit("crypto"), Lit("cryptocurrency")>>), WordBoundary>>)
TokenWord == Cat(<<WordBoundary, Lit("token"), WordBoundary, NotWordAhead>>)
CoinWord == Cat(<<WordBoundary, Lit("coin"), WordBoundary, NotWordAhead>>)

extractCoinName(text) ==
    LET lowered == toLowerCase(text)
        noFillers == ReplaceAll(FillerWords, lowered, 1, "")
        noCrypto == ReplaceAll(CryptoWords, noFillers, 1, "")
        noToken == ReplaceAll(TokenWord, noCrypto, 1, "")
        noCoin == ReplaceAll(CoinWord, noToken, 1, "")
        noPunctuation == ReplaceAll(Cls("notws"), noCoin, 1, "")
        oneSpaced == ReplaceAll(Spaces, noPunctuation, 1, " ")
    IN  trim(oneSpaced)

HOLDING_INFO == Cat(<<Group(1, Decimal), Spaces, Group(2, Plus(AnyChar))>>)

\* found = FALSE: the null extractHoldingInfo returns.
HoldingInfo(text, match) ==
    IF match.found
    THEN [found |-> TRUE,
          amount |-> parseFloat(Captured(text, match, 1)),
          coinName |-> extractCoinName(Captured(text, match, 2))]
    ELSE [found |-> FALSE]

extractHoldingInfo(text) == HoldingInfo(text, Match(HOLDING_INFO, text, TRUE))

coinMap ==
    [name \in {"btc", "bitcoin", "eth", "ethereum", "ada", "cardano", "dot", "polkadot",
               "link", "chainlink", "bnb", "binance", "sol", "solana", "matic", "polygon",
               "avax", "avalanche", "luna", "doge", "dogecoin", "shib", "shiba"} |->
        CASE name \in {"btc", "bitcoin"} -> "bitcoin"
          [] name \in {"eth", "ethereum"} -> "ethereum"
          [] name \in {"ada", "cardano"} -> "cardano"
          [] name \in {"dot", "polkadot"} -> "polkadot"
          [] name \in {"link", "chainlink"} -> "chainlink"
          [] name \in {"bnb", "binance"} -> "binancecoin"
          [] name \in {"sol", "solana"} -> "solana"
          [] name \in {"matic", "polygon"} -> "matic-network"
          [] name \in {"avax", "avalanche"} -> "avalanche-2"
          [] name = "luna" -> "terra-luna"
          [] name \in {"doge", "dogecoin"} -> "dogecoin"
          [] name \in {"shib", "shiba"} -> "shiba-inu"]

normalizeCoinName(name) ==
    LET lowered == toLowerCase(name)
    IN  IF lowered \in DOMAIN coinMap THEN coinMap[lowered] ELSE lowered

\* The intent of a branch that names a coin.
CoinIntent(type, coinName) ==
    [type |-> type, coinName |-> normalizeCoinName(coinName), originalCoinName |-> coinName]

\* The branches in another order: the portfolio rule tried first.
Intent_PortfolioFirst(trimmed, trading, query, simple, adding, holdingInfo, portfolio, trending, chart, info, help) ==
    IF portfolio.found THEN [type |-> "PORTFOLIO_VALUE"]
    ELSE IF trading.found
    THEN CoinIntent("PRICE_QUERY", extractCoinName(Captured(trimmed, trading, 1)))
    ELSE IF query.found
    THEN CoinIntent("PRICE_QUERY", extractCoinName(Captured(trimmed, query, 1)))
    ELSE IF simple.found
    THEN CoinIntent("PRICE_QUERY", extractCoinName(Captured(trimmed, simple, 1)))
    ELSE IF adding.found /\ holdingInfo.found
    THEN [type |-> "ADD_HOLDING", amount |-> holdingInfo.amount,
          coinName |-> normalizeCoinName(holdingInfo.coinName),
          originalCoinName |-> holdingInfo.coinName]
    ELSE IF trending.found THEN [type |-> "TRENDING"]
    ELSE IF chart.found
    THEN CoinIntent("CHART_REQUEST", extractCoinName(Captured(trimmed, chart, 1)))
    ELSE IF info.found
    THEN CoinIntent("INFO_REQUEST", extractCoinName(Captured(trimmed, info, 1)))
    ELSE IF help.found THEN [type |-> "HELP"]
    ELSE [type |-> "GENERAL", message |-> trimmed]

\* The branches of parseMessage in their order, on the trimmed text and the
\* result of each pattern on it.
Intent(trimmed, trading, query, simple, adding, holdingInfo, portfolio, trending, chart, info, help) ==
    IF trading.found
    THEN CoinIntent("PRICE_QUERY", extractCoinName(Captured(trimmed, trading, 1)))
    ELSE IF query.found
    THEN CoinIntent("PRICE_QUERY", extractCoinName(Captured(trimmed, query, 1)))
    ELSE IF simple.found
    THEN CoinIntent("PRICE_QUERY", extractCoinName(Captured(trimmed, simple, 1)))
    ELSE IF adding.found /\ holdingInfo.found
    THEN [type |-> "ADD_HOLDING", amount |-> holdingInfo.amount,
          coinName |-> normalizeCoinName(holdingInfo.coinName),
          originalCoinName |-> holdingInfo.coinName]
    ELSE IF portfolio.found THEN [type |-> "PORTFOLIO_VALUE"]
    ELSE IF trending.found THEN [type |-> "TRENDING"]
    ELSE IF chart.found
    THEN CoinIntent("CHART_REQUEST", extractCoinName(Captured(trimmed, chart, 1)))
    ELSE IF info.found
    THEN CoinIntent("INFO_REQUEST", extractCoinName(Captured(trimmed, info, 1)))
    ELSE IF help.found THEN [type |-> "HELP"]
    ELSE [type |-> "GENERAL", message |-> trimmed]

Parse(trimmed) ==
    Intent(trimmed,
           Match(PRICE_TRADING, trimmed, TRUE), Match(PRICE_QUERY, trimmed, TRUE),
           Match(PRICE_SIMPLE, trimmed, TRUE), Match(ADD_HOLDING, trimmed, TRUE),
           extractHoldingInfo(trimmed), Match(PORTFOLIO_VALUE, trimmed, TRUE),
           Match(TRENDING, trimmed, TRUE), Match(CHART_REQUEST, trimmed, TRUE),
           Match(INFO_REQUEST, trimmed, TRUE), Match(HELP, trimmed, TRUE))

parseMessage(text) == Parse(trim(text))

NoIntent == [type |-> "none"]

ParseInit ==
    /\ message = ""
    /\ parsedIntent = NoIntent

(***************************************************************************)
(* hooks/usePortfolio: the holdings state, its two effects (save to        *)
(* localStorage, refresh the valuation) and the operations of the hook.    *)
(* Amounts are in thousandths of a coin, prices in dollars.                *)
(***************************************************************************)
refreshInterval == 300000
FailedUpdateMessage == "Failed to update portfolio values"

\* new Date().toISOString() and Date.now().toString() at clock reading t.
toISOString(t) == [iso |-> t]
DateNowString(t) == ToString(t)

\* What the price endpoint knows: response.data of /simple/price for the
\* coin ids asked, an entry for every coin on the market.
Market ==
    [c \in {"bitcoin", "ethereum"} |->
        IF c = "bitcoin" THEN [usd |-> 500, usd_24h_change |-> 2]
        ELSE [usd |-> 30, usd_24h_change |-> -1]]

PricesFor(coinIds, body) ==
    IF body = "record" THEN [c \in coinIds \cap DOMAIN Market |-> Market[c]]
    ELSE [c \in {} |-> Market[c]]

\* holdings.map(...) of calculatePortfolioValue: the holdings of the
\* callback's closure, each with the price found for it.
updatedHoldings(snapshot, prices, t) ==
    [k \in 1..Len(snapshot) |->
        LET holding == snapshot[k]
        IN  IF holding.coinId \in DOMAIN prices
            THEN LET priceData == prices[holding.coinId]
                 IN  [currentPrice |-> priceData.usd,
                      currentValue |-> holding.amount * priceData.usd,
                      change24h |-> priceData.usd_24h_change,
                      lastUpdated |-> toISOString(t)] @@ holding
            ELSE holding]

totalValue(snapshot, prices) ==
    SeqSum([k \in 1..Len(snapshot) |->
               IF snapshot[k].coinId \in DOMAIN prices
               THEN snapshot[k].amount * prices[snapshot[k].coinId].usd ELSE 0])

\* addHolding applied twice over: the amount counted double.
addHolding_Twice(prevHoldings, coinId, coinName, coinSymbol, amount, t) ==
    LET existing == {k \in 1..Len(prevHoldings) : prevHoldings[k].coinId = coinId}
    IN  IF existing # {}
        THEN LET existingIndex == CHOOSE k \in existing : \A j \in existing : k <= j
             IN  [prevHoldings EXCEPT
                     ![existingIndex] =
                         [amount |-> @.amount + 2 * amount, lastUpdated |-> toISOString(t)] @@ @]
        ELSE Append(prevHoldings,
                    [id |-> DateNowString(t), coinId |-> coinId, coinName |-> coinName,
                     coinSymbol |-> toUpperCase(coinSymbol), amount |-> 2 * amount,
                     addedAt |-> toISOString(t), lastUpdated |-> toISOString(t)])

\* The updater addHolding hands to setHoldings.
addHolding(prevHoldings, coinId, coinName, coinSymbol, amount, t) ==
    LET existing == {k \in 1..Len(prevHoldings) : prevHoldings[k].coinId = coinId}
    IN  IF existing # {}
        THEN LET existingIndex == CHOOSE k \in existing : \A j \in existing : k <= j
             IN  [prevHoldings EXCEPT
                     ![existingIndex] =
                         [amount |-> @.amount + amount, lastUpdated |-> toISOString(t)] @@ @]
        ELSE Append(prevHoldings,
                    [id |-> DateNowString(t), coinId |-> coinId, coinName |-> coinName,
                     coinSymbol |-> toUpperCase(coinSymbol), amount |-> amount,
                     addedAt |-> toISOString(t), lastUpdated |-> toISOString(t)])

\* The updater removeHolding hands to setHoldings.
removeHolding(prevHoldings, holdingId) ==
    SelectSeq(prevHoldings, LAMBDA holding : holding.id # holdingId)

\* updateHolding without its first branch: an amount that is not positive is
\* stored like any other.
updateHolding_AlwaysSets(prevHoldings, holdingId, newAmount, t) ==
    [k \in 1..Len(prevHoldings) |->
        IF prevHoldings[k].id = holdingId
        THEN [amount |-> newAmount, lastUpdated |-> toISOString(t)] @@ prevHoldings[k]
        ELSE prevHoldings[k]]

\* updateHolding: removeHolding for an amount that is not positive.
updateHolding(prevHoldings, holdingId, newAmount, t) ==
    IF newAmount <= 0 THEN removeHolding(prevHoldings, holdingId)
    ELSE [k \in 1..Len(prevHoldings) |->
             IF prevHoldings[k].id = holdingId
             THEN [amount |-> newAmount, lastUpdated |-> toISOString(t)] @@ prevHoldings[k]
             ELSE prevHoldings[k]]

\* A quotient the code computes in floating point, kept as a fraction.
Ratio(num, den) == [num |-> num, den |-> den]
NaN == Ratio(0, 0)

\* getPortfolioSummary counting as totalCoins only the holdings a refresh
\* has valued.
getPortfolioSummary_CountsValued(hs, value) ==
    LET valid == {k \in 1..Len(hs) :
                     "change24h" \in DOMAIN hs[k] /\ hs[k].currentValue # 0}
        totalChange24h ==
            SeqSum([k \in 1..Len(hs) |->
                       IF k \in valid THEN hs[k].change24h * hs[k].currentValue ELSE 0])
    IN  [totalCoins |-> Cardinality({k \in 1..Len(hs) : "currentValue" \in DOMAIN hs[k]}),
         totalValue |-> value,
         change24h |-> IF valid # {} THEN Ratio(totalChange24h, value) ELSE Ratio(0, 1),
         holdings |->
             [k \in 1..Len(hs) |->
                 [percentage |->
                     IF value > 0
                     THEN (IF "currentValue" \in DOMAIN hs[k]
                           THEN Ratio(hs[k].currentValue * 100, value) ELSE NaN)
                     ELSE Ratio(0, 1)] @@ hs[k]]]

getPortfolioSummary(hs, value) ==
    LET valid == {k \in 1..Len(hs) :
                     "change24h" \in DOMAIN hs[k] /\ hs[k].currentValue # 0}
        \* (change24h / 100) * currentValue, summed: in hundredths
        totalChange24h ==
            SeqSum([k \in 1..Len(hs) |->
                       IF k \in valid THEN hs[k].change24h * hs[k].currentValue ELSE 0])
    IN  [totalCoins |-> Len(hs),
         totalValue |-> value,
         change24h |-> IF valid # {} THEN Ratio(totalChange24h, value) ELSE Ratio(0, 1),
         holdings |->
             [k \in 1..Len(hs) |->
                 [percentage |->
                     IF value > 0
                     THEN (IF "currentValue" \in DOMAIN hs[k]
                           THEN Ratio(hs[k].currentValue * 100, value) ELSE NaN)
                     ELSE Ratio(0, 1)] @@ hs[k]]]

\* The part of the hook's state calculatePortfolioValue writes before its
\* await, with the limiter of the Data Client it goes through.
Store ==
    [requests |-> requests, refreshes |-> refreshes, loading |-> loading,
     error |-> error, portfolioValue |-> portfolioValue]

\* calculatePortfolioValue up to the await of getMultiplePrices, run with
\* the holdings its closure holds.  A request the interceptor rejects fails
\* the call at once: the catch and the finally blocks run.
calculatePortfolioValue(snapshot, st, t) ==
    IF snapshot = <<>> THEN [st EXCEPT !.portfolioValue = 0]
    ELSE LET got == apiGetStart(st.requests, t)
         IN  IF got.sent
             THEN [st EXCEPT !.requests = got.requests,
                             !.refreshes = Append(@, [holdings |-> snapshot, adds |-> {}]),
                             !.loading = TRUE,
                             !.error = Null]
             ELSE [st EXCEPT !.requests = got.requests,
                             !.loading = FALSE,
                             !.error = FailedUpdateMessage]

\* No interval is set.
NoInterval == [due |-> -1, holdings |-> <<>>]

\* The refresh effect, which React runs again whenever setHoldings has put
\* a new array in the state: the old interval is cleared, and for a list
\* that is not empty calculatePortfolioValue is called and a new interval
\* set, both with the new list in their closure.
refreshEffect(newHoldings, st, t) ==
    IF Len(newHoldings) > 0
    THEN [st |-> calculatePortfolioValue(newHoldings, st, t),
          interval |-> [due |-> t + refreshInterval, holdings |-> newHoldings]]
    ELSE [st |-> st, interval |-> NoInterval]

\* The save effect: JSON.stringify keeps every field of a holding, all of
\* them strings and finite numbers.
saveEffect(newHoldings) == newHoldings

NoOp == [op |-> "none", added |-> {}]

\* What localStorage.getItem can return that is no saved list of holdings:
\* null (nothing stored under the key), a string JSON.parse throws on, and
\* the string "null", which JSON.parse turns into null.
Absent == <<[absent |-> TRUE]>>
Unparsable == <<[unparsable |-> TRUE]>>
NullText == <<[json |-> "null"]>>
NullValue == <<[null |-> TRUE]>>

\* JSON.parse on a stored string: the value, or thrown.  What the save
\* effect wrote, strings and finite numbers only, parses to what it was.
JSONparse(text) ==
    IF text = Unparsable THEN [thrown |-> TRUE, value |-> <<>>]
    ELSE IF text = NullText THEN [thrown |-> FALSE, value |-> NullValue]
    ELSE [thrown |-> FALSE, value |-> text]

\* The page after its first start with nothing stored: the load effect found
\* nothing and the save effect has written the empty list.
FirstStart == [phase |-> "up", found |-> Absent, queued |-> <<>>, denied |-> FALSE]

PortfolioInit ==
    /\ holdings = <<>>
    /\ portfolioValue = 0
    /\ loading = FALSE
    /\ error = Null
    /\ storage = saveEffect(<<>>)
    /\ refreshes = <<>>
    /\ interval = NoInterval
    /\ pfLast = NoOp
    /\ added = <<>>
    /\ boot = FirstStart

\* The message the mount effect of ChatInterface puts in the chat.
WelcomeText == "Hi! I'm your crypto assistant. I can help you with: ..."
welcomeMessage ==
    [id |-> 0, text |-> [template |-> WelcomeText, values |-> <<>>], isUser |-> FALSE,
     timestamp |-> 0]

NoReply == [intent |-> NoIntent, trail |-> <<>>, reply |-> [text |-> ""]]

ChatInit ==
    /\ messages = <<welcomeMessage>>
    /\ isProcessing = FALSE
    /\ responding = <<>>
    /\ chatLast = NoReply

\* speechService as constructed and the indicators as first rendered: no
\* recognition session, no promise of startListening pending, nothing
\* shown as listening or recording, no delayed send.
NoSettle == [call |-> "none", outcome |-> "none", message |-> ""]
VoiceInit ==
    voice = [isListening |-> FALSE, session |-> "none", promise |-> "none", unsettled |-> 0,
             uiListening |-> FALSE, isRecording |-> FALSE, timers |-> <<>>, started |-> 0,
             last |-> NoSettle]

(***************************************************************************)
(* The state after the modules are loaded.                                 *)
(***************************************************************************)
Init ==
    /\ now = 0
    /\ LimInit
    /\ ResetInit
    /\ MgrLimInit
    /\ CacheInit
    /\ ClientInit
    /\ MgrInit
    /\ ParseInit
    /\ PortfolioInit
    /\ ChatInit
    /\ VoiceInit

(***************************************************************************)
(* The direct-client limiter driven by its request interceptor.            *)
(***************************************************************************)
\* Time passes.
LimTick ==
    /\ \E d \in Advances :
          /\ now + d <= MaxClock
          /\ now' = now + d
    /\ UNCHANGED <<limVars, notLimiter>>

\* One request reaches the request interceptor.
LimAttempt ==
    /\ Len(attempts) < MaxAttempts
    /\ LET r == RequestInterceptor(requests, now)
       IN  /\ requests' = r.requests
           /\ attempts' = Append(attempts, [t |-> now, ok |-> ~r.rejected])
    /\ UNCHANGED <<now, notLimiter>>

NextLimiter == LimTick \/ LimAttempt

SpecLimiter == Init /\ [][NextLimiter]_vars

(***************************************************************************)
(* C2.  Windows of the direct-client limiter.                              *)
(***************************************************************************)
\* The attempts whose reading lies in the window [w, w + windowMs).
InWindow(w) == SelectSeq(attempts, LAMBDA a : w <= a.t /\ a.t < w + windowMs)

\* The number of those that were admitted.
AdmittedIn(w) == Len(SelectSeq(InWindow(w), LAMBDA a : a.ok))

\* The windows that open at the reading of some attempt.
WindowStarts == {a.t : a \in Range(attempts)}

\* The admitted attempts before attempt i that are younger than the window.
AdmittedBefore(i) ==
    Cardinality({j \in 1..(i - 1) :
        attempts[j].ok /\ attempts[i].t - attempts[j].t < windowMs})

\* C2 as stated: in every 60-second window the first 10 attempts are
\* admitted and the 11th is denied, and no window holds more than 10
\* admitted requests.
C2_Original ==
    \A w \in WindowStarts :
        LET inw == InWindow(w)
        IN  /\ \A i \in 1..Len(inw) :
                  /\ (i <= maxRequests => inw[i].ok)
                  /\ (i = maxRequests + 1 => ~inw[i].ok)
            /\ AdmittedIn(w) <= maxRequests

\* C2 amended: an attempt is admitted exactly when fewer than 10 requests
\* were admitted less than 60 s before it; so in a window that opens at an
\* attempt with no admission in the preceding 60 s the first 10 attempts are
\* admitted and every later attempt of that window, the 11th included, is
\* denied; and no window [w, w + 60 s) holds more than 10 admitted requests.
C2_SlidingWindow ==
    /\ \A i \in 1..Len(attempts) :
          attempts[i].ok <=> AdmittedBefore(i) < maxRequests
    /\ \A i \in 1..Len(attempts) :
          AdmittedBefore(i) = 0 =>
              \A k \in i..Len(attempts) :
                  attempts[k].t < attempts[i].t + windowMs =>
                      (attempts[k].ok <=> k - i < maxRequests)
    /\ \A w \in WindowStarts : AdmittedIn(w) <= maxRequests
    /\ Len(requests) <= maxRequests

\* Eleven attempts inside one window that opened on an empty limiter: ten
\* admitted, the eleventh denied.
C2_Witness ==
    /\ Len(attempts) >= maxRequests + 1
    /\ attempts[maxRequests + 1].t < attempts[1].t + windowMs
    /\ \A i \in 1..maxRequests : attempts[i].ok
    /\ ~attempts[maxRequests + 1].ok

(***************************************************************************)
(* The orchestration-level limiter driven by its request interceptor.      *)
(***************************************************************************)
\* Time passes: by a millisecond while requests keep coming, or by a pause.
MgrLimTick ==
    /\ \E d \in MgrAdvances :
          /\ now + d <= MgrMaxClock
          /\ d = 1 => now \in rateLimiter
          /\ now' = now + d
    /\ UNCHANGED <<mgrLimVars, notMgrLimiter>>

\* One request reaches the request interceptor of the ApiManager.
MgrLimAttempt ==
    /\ Len(admitLog) < MaxMgrAttempts
    /\ now \in rateLimiter =>
           Len(admitLog) - Cardinality(Range(admitLog)) < MaxSameMs
    /\ LET r == handleRateLimit(rateLimiter, now)
       IN  /\ rateLimiter' = r.rateLimiter
           /\ admitLog' = IF r.thrown THEN admitLog ELSE Append(admitLog, now)
    /\ UNCHANGED <<now, notMgrLimiter>>

NextMgrLimiter == MgrLimTick \/ MgrLimAttempt

SpecMgrLimiter == Init /\ [][NextMgrLimiter]_vars

(***************************************************************************)
(* The two limiters after a pause.  They share no state, and a behaviour   *)
(* sends its requests through one of them; nothing is logged, so a run of  *)
(* requests is as long as the ceilings need.                               *)
(***************************************************************************)
ResetMaxClock == 60120
MaxRun == 52

\* Time passes: by a millisecond while requests keep coming, or by a pause.
ResetTick ==
    /\ \E d \in MgrAdvances :
          /\ now + d <= ResetMaxClock
          /\ d = 1 => (now \in rateLimiter \/ now \in Range(requests))
          /\ now' = now + d
    /\ UNCHANGED <<requests, rateLimiter, sinceReset, notReset>>

\* What an attempt does to the count of a limiter: a request admitted with
\* every recorded reading expired starts the count anew.
Counted(count, expired, admitted) ==
    IF ~admitted THEN count ELSE IF expired THEN 1 ELSE count + 1

\* One request reaches the request interceptor of `api`.
ApiAttempt ==
    /\ rateLimiter = {}
    /\ sinceReset.api < MaxRun
    /\ LET r == RequestInterceptor(requests, now)
           expired == \A i \in 1..Len(requests) : now - requests[i] >= 60000
       IN  /\ requests' = r.requests
           /\ sinceReset' =
                  [sinceReset EXCEPT
                      !.api = Counted(@, expired, ~r.rejected),
                      !.last = [limiter |-> "api", expired |-> expired,
                                admitted |-> ~r.rejected, recorded |-> Len(requests)]]
    /\ UNCHANGED <<now, rateLimiter, notReset>>

\* One request reaches the request interceptor of the ApiManager.
MgrAttempt ==
    /\ requests = <<>>
    /\ sinceReset.mgr < MaxRun
    /\ LET r == handleRateLimit(rateLimiter, now)
           expired == \A ts \in rateLimiter : now - ts >= 60000
       IN  /\ rateLimiter' = r.rateLimiter
           /\ sinceReset' =
                  [sinceReset EXCEPT
                      !.mgr = Counted(@, expired, ~r.thrown),
                      !.last = [limiter |-> "mgr", expired |-> expired,
                                admitted |-> ~r.thrown,
                                recorded |-> Cardinality(rateLimiter)]]
    /\ UNCHANGED <<now, requests, notReset>>

NextReset == ResetTick \/ ApiAttempt \/ MgrAttempt

SpecReset == Init /\ [][NextReset]_vars

Ceiling(limiter) == IF limiter = "api" THEN maxRequests ELSE maxRequestsPerMinute

\* C19: for either limiter, a request that finds every recorded timestamp
\* at least 60 seconds old is admitted, however many were admitted or
\* denied before; and from that request on the limiter admits its full
\* ceiling again: it denies nothing before it has admitted that many.
C19_Reset ==
    /\ sinceReset.last.expired => sinceReset.last.admitted
    /\ ~sinceReset.last.admitted =>
           /\ sinceReset.last.limiter = "api" => sinceReset.api >= maxRequests
           /\ sinceReset.last.limiter = "mgr" => sinceReset.mgr >= maxRequestsPerMinute

\* A limiter that was full is asked again after a pause of 60 seconds, and
\* admits.
C19_ApiAdmitsAgain ==
    /\ sinceReset.last = [limiter |-> "api", expired |-> TRUE, admitted |-> TRUE,
                          recorded |-> maxRequests]
    /\ requests = <<now>>

C19_MgrAdmitsAgain ==
    /\ sinceReset.last = [limiter |-> "mgr", expired |-> TRUE, admitted |-> TRUE,
                          recorded |-> maxRequestsPerMinute]

\* After the pause the full ceiling has been admitted again, and the next
\* request is denied.
C19_ApiFullAgain ==
    /\ now >= 60000
    /\ sinceReset.last.limiter = "api"
    /\ ~sinceReset.last.admitted
    /\ sinceReset.api = maxRequests

C19_MgrFullAgain ==
    /\ now >= 60000
    /\ sinceReset.last.limiter = "mgr"
    /\ ~sinceReset.last.admitted
    /\ sinceReset.mgr = maxRequestsPerMinute

(***************************************************************************)
(* C32.  Denied requests and the limiters.                                 *)
(***************************************************************************)
\* The moment from which the limiter of `api` admits a request, for the
\* readings it has recorded: now when the window has room, else the moment
\* enough of them have left the window.
ApiAdmitsFrom(reqs, t) ==
    LET kept == SelectSeq(reqs, LAMBDA time : t - time < windowMs)
    IN  IF Len(kept) < maxRequests THEN t
        ELSE kept[Len(kept) - maxRequests + 1] + windowMs

\* The same for the Map of the ApiManager, whose keys leave the window a
\* millisecond later.
MgrAdmitsFrom(rl, t) ==
    LET kept == {ts \in rl : ~(ts < t - 60000)}
    IN  IF Cardinality(kept) < maxRequestsPerMinute THEN t
        ELSE (CHOOSE m \in kept :
                 Cardinality({ts \in kept : ts >= m}) = maxRequestsPerMinute) + 60001

\* C32: a request either limiter denies is not recorded: the readings
\* recorded are those of before that are still in the window, and the
\* moment from which the limiter admits again is what it was.
C32_Claim ==
    /\ [][(ApiAttempt /\ ~sinceReset'.last.admitted)
             => /\ requests' = SelectSeq(requests, LAMBDA time : now - time < windowMs)
                /\ ApiAdmitsFrom(requests', now) = ApiAdmitsFrom(requests, now)
                /\ ApiAdmitsFrom(requests', now) > now]_vars
    /\ [][(MgrAttempt /\ ~sinceReset'.last.admitted)
             => /\ rateLimiter' = {ts \in rateLimiter : ~(ts < now - 60000)}
                /\ MgrAdmitsFrom(rateLimiter', now) = MgrAdmitsFrom(rateLimiter, now)
                /\ MgrAdmitsFrom(rateLimiter', now) > now]_vars

\* The limiter of `api` has denied a request with its ceiling recorded, a
\* recorded reading older than the window dropped by the check.
C32_ApiDenied ==
    /\ sinceReset.last.limiter = "api"
    /\ ~sinceReset.last.admitted
    /\ Len(requests) = maxRequests
    /\ now \notin Range(requests)

\* The limiter of the ApiManager has denied a request.
C32_MgrDenied ==
    /\ sinceReset.last.limiter = "mgr"
    /\ ~sinceReset.last.admitted
    /\ Cardinality(rateLimiter) = maxRequestsPerMinute
    /\ now \notin rateLimiter

(***************************************************************************)
(* C3.  Admission by the orchestration-level limiter.                      *)
(***************************************************************************)
\* The requests let through whose reading is inside the trailing window,
\* as handleRateLimit measures it.
AdmittedInTrailingWindow ==
    Len(SelectSeq(admitLog, LAMBDA ts : ~(ts < now - 60000)))

\* C3: with non-decreasing clock readings, several attempts possibly
\* reading the same value, no more than 50 requests are admitted within
\* the trailing 60-second window, and every admitted request of the window
\* is counted by the limiter state.
C3_Claim ==
    /\ AdmittedInTrailingWindow <= maxRequestsPerMinute
    /\ AdmittedInTrailingWindow =
           Cardinality({ts \in rateLimiter : ~(ts < now - 60000)})

\* Fifty-one requests were admitted inside one trailing window.
C3_Overrun == AdmittedInTrailingWindow > maxRequestsPerMinute

(***************************************************************************)
(* The response cache used directly: setCache, getFromCache, the sweep.    *)
(***************************************************************************)
CacheAdvances == {150000, 300000}
CacheMaxClock == 1200000
DirectKeys ==
    { getCacheKey("/simple/price", PriceParams),
      getCacheKey("/search/trending", <<>>) }

\* Time passes, up to the moment the sweep is due.
CacheTick ==
    /\ \E d \in CacheAdvances :
          /\ now + d <= CacheMaxClock
          /\ now + d <= nextSweep
          /\ now' = now + d
    /\ UNCHANGED <<cacheVars, notCache>>

\* apiManager.setCache(key, data).
SetCache ==
    /\ \E k \in DirectKeys, d \in Datas :
          /\ cache' = setCache(cache, k, d, now)
          /\ puts' = [puts EXCEPT ![k] = [data |-> d, timestamp |-> now]]
    /\ UNCHANGED <<now, nextSweep, lastGet, notCache>>

\* apiManager.getFromCache(key).
GetFromCache ==
    /\ \E k \in DirectKeys :
          LET r == getFromCache(cache, k, now)
          IN  /\ cache' = r.cache
              /\ lastGet' = [key |-> k, result |-> r.result, at |-> now,
                             put |-> puts[k]]
    /\ UNCHANGED <<now, nextSweep, puts, notCache>>

\* The setInterval callback: apiManager.cleanupCache() every 10 minutes.
CleanupCache ==
    /\ now = nextSweep
    /\ cache' = cleanupCache(cache, now)
    /\ nextSweep' = now + sweepInterval
    /\ UNCHANGED <<now, puts, lastGet, notCache>>

NextCache == CacheTick \/ SetCache \/ GetFromCache \/ CleanupCache

SpecCache == Init /\ [][NextCache]_vars

(***************************************************************************)
(* C20.  The sweep.                                                        *)
(***************************************************************************)
\* The entries of the Map and their age.
Entries == {k \in DOMAIN cache : cache[k] # NoEntry}
Age(k) == now - cache[k].timestamp

\* C20: the sweep removes every entry that is 5 minutes old or older and
\* keeps every younger one as it is; no entry is in the cache more than 15
\* minutes after it was written; and right after a sweep getCacheStats
\* reports expired = 0 and total = valid.
C20_Sweep ==
    /\ [](\A k \in Entries : Age(k) <= cacheTimeout + sweepInterval)
    /\ [][CleanupCache =>
             /\ \A k \in Entries : Age(k) >= cacheTimeout => cache'[k] = NoEntry
             /\ \A k \in Entries : Age(k) < cacheTimeout => cache'[k] = cache[k]
             /\ \A k \in DOMAIN cache \ Entries : cache'[k] = NoEntry
             /\ getCacheStats(cache', now').expired = 0
             /\ getCacheStats(cache', now').total = getCacheStats(cache', now').valid]_vars

\* Right after a sweep, with no lookup ever made: an entry written 5
\* minutes before or earlier is gone, and a younger one is still there.
C20_Swept ==
    /\ now > 0
    /\ nextSweep = now + sweepInterval
    /\ lastGet = NoGet
    /\ \E k \in DOMAIN cache :
          /\ puts[k] # NoEntry
          /\ now - puts[k].timestamp >= cacheTimeout
          /\ cache[k] = NoEntry
    /\ \E k \in Entries : cache[k] = puts[k] /\ Age(k) < cacheTimeout
    /\ getCacheStats(cache, now) = [total |-> 1, valid |-> 1, expired |-> 0]

\* An entry survived a sweep and is now older than 10 minutes, the next
\* sweep due.
C20_OldEntry ==
    /\ now = nextSweep
    /\ \E k \in Entries : Age(k) > sweepInterval

\* An entry exactly 5 minutes old when the sweep is due.
C20_JustExpired ==
    /\ now = nextSweep
    /\ \E k \in Entries : Age(k) = cacheTimeout

(***************************************************************************)
(* C8.  A get after a put.                                                 *)
(***************************************************************************)
\* C8: a getFromCache issued after a setCache of the same key returns
\* exactly the stored data while now - storedAt < 5 minutes, and null once
\* now - storedAt >= 5 minutes (and when the key was never put), whatever
\* puts on other keys, lookups and sweeps came in between.
C8_GetAfterPut ==
    lastGet.key # "none" =>
        lastGet.result =
            IF /\ lastGet.put # NoEntry
               /\ lastGet.at - lastGet.put.timestamp < cacheTimeout
            THEN lastGet.put.data
            ELSE Null

\* A get that returned the stored data although the other key was put
\* after it and the entry is no longer young.
C8_Witness ==
    /\ lastGet.key # "none"
    /\ lastGet.put # NoEntry
    /\ lastGet.result = lastGet.put.data
    /\ lastGet.at > lastGet.put.timestamp
    /\ \E k \in DirectKeys \ {lastGet.key} :
          /\ puts[k] # NoEntry
          /\ puts[k].timestamp > lastGet.put.timestamp
          /\ puts[k].timestamp <= lastGet.at
          /\ puts[k].data # lastGet.put.data

(***************************************************************************)
(* The operations of cryptoAPI called one after another or overlapping.    *)
(***************************************************************************)
ClientAdvances == {60000, 300000}
ClientMaxClock == 360000
MaxInflight == 1

\* Time passes.
ClientTick ==
    /\ \E d \in ClientAdvances :
          /\ now + d <= ClientMaxClock
          /\ now' = now + d
    /\ UNCHANGED <<requests, clientVars, notClient>>

\* A caller invokes an operation: api.get() runs the request interceptor
\* and either dispatches the request or fails at once.
ClientCall(call) ==
    /\ BagCardinality(inflight) < MaxInflight
    /\ LET s == apiGetStart(requests, now)
       IN  /\ requests' = s.requests
           /\ IF s.sent
              THEN /\ inflight' = inflight (+) SetToBag({call})
                   /\ UNCHANGED lastResult
              ELSE /\ lastResult' = [call |-> call, error |-> s.error, at |-> 0,
                                     network |-> FALSE, denied |-> TRUE]
                   /\ UNCHANGED inflight
    /\ UNCHANGED <<now, notClient>>

\* The transport answers a dispatched request and the operation settles.
ClientSettle(call, outcome) ==
    /\ BagIn(call, inflight)
    /\ inflight' = inflight (-) SetToBag({call})
    /\ LET e == operationResult(call, apiGetSettle(outcome))
       IN  lastResult' = [call |-> call, error |-> e,
                          at |-> IF e = NoError THEN now ELSE 0,
                          network |-> TRUE, denied |-> FALSE]
    /\ UNCHANGED <<now, requests, notClient>>

NextClient ==
    \/ ClientTick
    \/ \E call \in ClientCalls : ClientCall(call)
    \/ \E call \in ClientCalls, outcome \in NetOutcomes : ClientSettle(call, outcome)

SpecClient == Init /\ [][NextClient]_vars

(***************************************************************************)
(* C4.  What a denied call reports.                                        *)
(***************************************************************************)
\* C4: when the limiter denies a Data Client operation, no network call is
\* made and the error that reaches the caller is the rate-limit error, not
\* a Timeout, NetworkUnreachable or UpstreamStatus error.
C4_Claim ==
    lastResult.denied =>
        /\ ~lastResult.network
        /\ ErrorKind(lastResult.error) = "RateLimited"

(***************************************************************************)
(* C7.  Repeating a read within five minutes.                              *)
(***************************************************************************)
\* The last settled call was this call, it succeeded, and less than five
\* minutes have passed since.
RepeatsFreshSuccess(call) ==
    /\ lastResult.call = call
    /\ lastResult.error = NoError
    /\ lastResult.network
    /\ now - lastResult.at < cacheTimeout

\* C7: for each read operation other than search, a second call with the
\* same arguments less than 5 minutes after a successful one returns the
\* cached value: it performs no network request and consumes no slot of
\* the rate limiter.
C7_Claim ==
    [][\A call \in ClientCalls :
          (call.op # "searchCoins" /\ RepeatsFreshSuccess(call) /\ ClientCall(call))
              => (inflight' = inflight /\ Len(requests') <= Len(requests))]_vars

(***************************************************************************)
(* The ApiManager: makeRequest with and without the cache, searchCoins,    *)
(* the sweep.                                                              *)
(***************************************************************************)
MgrCacheAdvances == {150000, 300000}
MgrCacheMaxClock == 600000
MaxMgrPending == 2

\* Time passes, up to the moment the sweep is due.
MgrTick ==
    /\ \E d \in MgrCacheAdvances :
          /\ now + d <= MgrCacheMaxClock
          /\ now + d <= nextSweep
          /\ now' = now + d
    /\ UNCHANGED <<cache, rateLimiter, mgrVars, notMgr>>

\* A call of makeRequest(url, params, useCache) up to its await.
MakeRequestCall(from, url, params, useCache) ==
    /\ BagCardinality(mgrPending) < MaxMgrPending
    /\ LET s == makeRequestStart(cache, rateLimiter, url, params, useCache, now)
       IN  /\ cache' = s.cache
           /\ rateLimiter' = s.rateLimiter
           /\ mgrPending' =
                 IF s.outcome = "sent"
                 THEN mgrPending (+) SetToBag({[cacheKey |-> getCacheKey(url, params),
                                                useCache |-> useCache,
                                                from |-> from]})
                 ELSE mgrPending
           /\ mgrLast' = [from |-> from, outcome |-> s.outcome]
    /\ UNCHANGED <<now, notMgr>>

\* apiManager.makeRequest(url, params, useCache), as batchRequest and the
\* endpoint methods call it.
MgrMakeRequest(r, useCache) ==
    MakeRequestCall("makeRequest", r.url, r.params, useCache)

\* apiManager.searchCoins(query).
MgrSearch(query) ==
    LET a == searchCoins(query)
    IN  IF a.short
        THEN /\ mgrLast' = [from |-> "searchCoins", outcome |-> "empty"]
             /\ UNCHANGED <<now, cache, rateLimiter, mgrPending, notMgr>>
        ELSE MakeRequestCall("searchCoins", a.url, a.params, a.useCache)

\* The data source answers, and makeRequest resumes after its await.
MgrSettle(p, response) ==
    /\ BagIn(p, mgrPending)
    /\ mgrPending' = mgrPending (-) SetToBag({p})
    /\ cache' = makeRequestSettle(cache, p.cacheKey, p.useCache, response, now)
    /\ UNCHANGED <<now, rateLimiter, mgrLast, notMgr>>

\* The setInterval callback: apiManager.cleanupCache() every 10 minutes.
MgrCleanup ==
    /\ now = nextSweep
    /\ cache' = cleanupCache(cache, now)
    /\ nextSweep' = now + sweepInterval
    /\ UNCHANGED <<now, puts, lastGet, limVars, mgrLimVars, clientVars, mgrVars, frontVars>>

MgrPendings ==
    {[cacheKey |-> k, useCache |-> u, from |-> f] :
        k \in CacheKeys, u \in BOOLEAN, f \in {"makeRequest", "searchCoins"}}

NextMgr ==
    \/ MgrTick
    \/ MgrCleanup
    \/ \E r \in MgrRequests, useCache \in BOOLEAN : MgrMakeRequest(r, useCache)
    \/ \E q \in SearchQueries : MgrSearch(q)
    \/ \E p \in MgrPendings, response \in MgrResponses : MgrSettle(p, response)

SpecMgr == Init /\ [][NextMgr]_vars

(***************************************************************************)
(* C9.  The cache key and the order of the parameters.                     *)
(***************************************************************************)
\* The two mappings hold the same name/value pairs.
SameParams(p1, p2) == Range(p1) = Range(p2)

Fresh(entry) == entry # NoEntry /\ now - entry.timestamp < cacheTimeout

\* The cache holds a fresh entry stored by a request for the same endpoint
\* with the same name/value pairs.
EquivalentFresh(r) ==
    \E r2 \in MgrRequests :
        /\ r2.url = r.url
        /\ SameParams(r2.params, r.params)
        /\ Fresh(cache[getCacheKey(r2.url, r2.params)])

\* C9: two parameter mappings with the same pairs inserted in different
\* orders derive the same key, so the second request is answered from the
\* entry the first stored: it issues no network request.
C9_Claim ==
    [][\A r \in MgrRequests :
          (EquivalentFresh(r) /\ MgrMakeRequest(r, TRUE))
              => (/\ getCacheKey(r.url, r.params) \in
                       {k \in CacheKeys : Fresh(cache[k])}
                  /\ mgrPending' = mgrPending)]_vars

(***************************************************************************)
(* C21.  Two identical requests in flight.                                 *)
(***************************************************************************)
\* A cached makeRequest for the request r awaits the network.
InFlight(r) == [cacheKey |-> getCacheKey(r.url, r.params), useCache |-> TRUE, from |-> "makeRequest"]

\* The keys of the limiter that are inside its window.
LiveKeys == {ts \in rateLimiter : ~(ts < now - 60000)}

\* C21: a cacheable makeRequest issued while an identical one is in flight,
\* with no fresh entry under their key, is not answered from the cache; when
\* the ceiling allows it is admitted and takes a slot of its own in the
\* limiter, and a second request is on the network; and every successful
\* answer with a body is written under the key, replacing what was there.
C21_Claim ==
    /\ [][\A r \in MgrRequests :
             (/\ BagIn(InFlight(r), mgrPending)
              /\ ~Fresh(cache[getCacheKey(r.url, r.params)])
              /\ MgrMakeRequest(r, TRUE))
                 => /\ mgrLast'.outcome # "hit"
                    /\ Cardinality(LiveKeys) < maxRequestsPerMinute =>
                          /\ mgrLast'.outcome = "sent"
                          /\ CopiesIn(InFlight(r), mgrPending') = CopiesIn(InFlight(r), mgrPending) + 1
                          /\ Cardinality(rateLimiter') = Cardinality(LiveKeys) + 1]_vars
    /\ [][\A p \in MgrPendings, response \in MgrResponses :
             (p.useCache /\ response.ok /\ response.data # Null /\ MgrSettle(p, response))
                 => cache'[p.cacheKey] = [data |-> response.data, timestamp |-> now]]_vars

\* Two identical cacheable requests are on the network, and the limiter
\* holds one key.
C21_OneSlotForTwo ==
    \E r \in MgrRequests :
        /\ CopiesIn(InFlight(r), mgrPending) = 2
        /\ Cardinality(rateLimiter) = 1

(***************************************************************************)
(* makeRequest at the ceiling of the limiter: requests of one endpoint a   *)
(* millisecond apart, and a pause that outlasts the cache.                 *)
(***************************************************************************)
AdmitAdvances == {1, 300000}
AdmitMaxClock == 300052
AdmitRequests == {r \in MgrRequests : r.url = "/search/trending"}

\* Time passes: by a millisecond while requests keep coming, or by a pause.
AdmitTick ==
    /\ \E d \in AdmitAdvances :
          /\ now + d <= AdmitMaxClock
          /\ d = 1 => now \in rateLimiter
          /\ now' = now + d
    /\ UNCHANGED <<cache, rateLimiter, mgrVars, notMgr>>

NextAdmit ==
    \/ AdmitTick
    \/ \E r \in AdmitRequests, useCache \in BOOLEAN : MgrMakeRequest(r, useCache)
    \/ \E p \in MgrPendings, response \in MgrResponses : MgrSettle(p, response)

SpecAdmit == Init /\ [][NextAdmit]_vars

\* A cached makeRequest that finds a fresh entry under its key returns at
\* once: the limiter, the cache and the requests on the network are as
\* before.
HitIsFree ==
    [][\A r \in AdmitRequests :
          (Fresh(cache[getCacheKey(r.url, r.params)]) /\ MgrMakeRequest(r, TRUE))
              => /\ mgrLast'.outcome = "hit"
                 /\ UNCHANGED <<rateLimiter, cache, mgrPending>>]_vars

\* A cached makeRequest that is denied, and one whose request fails, store
\* nothing under the key: the entry is as before, or deleted by the lookup
\* that found it expired.
NothingStored ==
    /\ [][\A r \in AdmitRequests :
             (MgrMakeRequest(r, TRUE) /\ mgrLast'.outcome = "denied")
                 => /\ cache'[getCacheKey(r.url, r.params)] = NoEntry
                    /\ \A k \in CacheKeys \ {getCacheKey(r.url, r.params)} : cache'[k] = cache[k]
                    /\ UNCHANGED <<rateLimiter, mgrPending>>]_vars
    /\ [][\A p \in MgrPendings, response \in MgrResponses :
             (~response.ok /\ MgrSettle(p, response)) => cache' = cache]_vars

\* C28 as stated: the cache is consulted before admission, a fresh entry is
\* returned with the limiter and the cache unchanged and no request sent;
\* every successful response of a cached makeRequest is stored under the
\* key; a failed or denied request stores nothing.
C28_Original ==
    /\ HitIsFree
    /\ NothingStored
    /\ [][\A p \in MgrPendings, response \in MgrResponses :
             (p.useCache /\ response.ok /\ MgrSettle(p, response))
                 => cache'[p.cacheKey] = [data |-> response.data, timestamp |-> now]]_vars

\* C28 (amended): as C28_Original, but a successful response is stored
\* under the key only when it has a body; one with an empty body and any
\* response of a makeRequest without the cache leave the cache as it is.
C28_Claim ==
    /\ HitIsFree
    /\ NothingStored
    /\ [][\A p \in MgrPendings, response \in MgrResponses :
             (response.ok /\ MgrSettle(p, response))
                 => IF p.useCache /\ response.data # Null
                    THEN /\ cache'[p.cacheKey] = [data |-> response.data, timestamp |-> now]
                         /\ \A k \in CacheKeys \ {p.cacheKey} : cache'[k] = cache[k]
                    ELSE cache' = cache]_vars

\* A cached makeRequest was answered from the cache while the limiter was at
\* its ceiling.
C28_HitAtCeiling ==
    /\ mgrLast.outcome = "hit"
    /\ Cardinality(LiveKeys) = maxRequestsPerMinute

\* A cached makeRequest was denied, and nothing is under its key.
C28_Denied ==
    /\ mgrLast.outcome = "denied"
    /\ \A r \in AdmitRequests : cache[getCacheKey(r.url, r.params)] = NoEntry
    /\ mgrPending = EmptyBag

\* A response with a body was stored after the pause, over an expired entry
\* the lookup had deleted.
C28_StoredAgain ==
    /\ now >= 300000
    /\ \E r \in AdmitRequests :
          cache[getCacheKey(r.url, r.params)] = [data |-> "d1", timestamp |-> now]

(***************************************************************************)
(* Searches through both data clients: ApiManager.searchCoins beside a     *)
(* cached makeRequest of the same endpoint, and cryptoAPI.searchCoins.     *)
(***************************************************************************)
SearchAdvances == {150000, 300000}
SearchMaxClock == 300000
MaxSearchBurst == 2
SearchCall == [op |-> "searchCoins", arg |-> "btc"]

\* Time passes.
SearchTick ==
    /\ \E d \in SearchAdvances :
          /\ now + d <= SearchMaxClock
          /\ now' = now + d
    /\ UNCHANGED <<limVars, mgrLimVars, cacheVars, clientVars, mgrVars, frontVars>>

\* apiManager.makeRequest('/search', {query}) with the cache on.
SearchSeed == \E r \in SearchRequests : MgrMakeRequest(r, TRUE)

\* cryptoAPI.searchCoins(query), a few per window.
ClientSearch ==
    /\ Len(canMakeRequest(requests, now).requests) < MaxSearchBurst
    /\ ClientCall(SearchCall)

NextSearch ==
    \/ SearchTick
    \/ SearchSeed
    \/ \E q \in SearchQueries : MgrSearch(q)
    \/ \E p \in MgrPendings, response \in MgrResponses : MgrSettle(p, response)
    \/ ClientSearch
    \/ \E outcome \in NetOutcomes : ClientSettle(SearchCall, outcome)

SpecSearch == Init /\ [][NextSearch]_vars

(***************************************************************************)
(* The failures of the transport, as each of the two clients hands them to *)
(* its caller: the response interceptor of `api`, and handleResponseError  *)
(* of the ApiManager with handleApiError.                                  *)
(***************************************************************************)
\* The failures of the transport: every answer that is no 2xx response.
\* Each is an AxiosError of a request that was sent, so error.request is set.
TransportFailures == {outcome \in NetOutcomes : ~outcome.ok}

\* handleApiError(error): error.response.data has no message here.
handleApiError(err) ==
    IF err.status # 0
    THEN "API Error: " \o ToString(err.status) \o " - " \o "Unknown error"
    ELSE "Network Error: Unable to reach the server"

\* handleResponseError(error): rejects with new Error(errorMessage).
handleResponseError(err) == Error(handleApiError(err))

ErrorCalls == {call \in ClientCalls : call.op \in {"getCurrentPrice", "getCoinDetails"}}
ErrorRequests == {r \in MgrRequests : r.url = "/search/trending"}

\* The data source fails a request of the ApiManager: the response
\* interceptor rejects, and makeRequest rethrows to its caller.
MgrFail(p, outcome) ==
    /\ BagIn(p, mgrPending)
    /\ mgrPending' = mgrPending (-) SetToBag({p})
    /\ mgrLast' = [from |-> p.from, outcome |-> "failed",
                   error |-> handleResponseError(outcome.error)]
    /\ UNCHANGED <<now, cache, rateLimiter, notMgr>>

NextErrors ==
    \/ \E call \in ErrorCalls : ClientCall(call)
    \/ \E call \in ErrorCalls, outcome \in NetOutcomes : ClientSettle(call, outcome)
    \/ \E r \in ErrorRequests : MgrMakeRequest(r, TRUE)
    \/ \E p \in MgrPendings, outcome \in TransportFailures : MgrFail(p, outcome)

SpecErrors == Init /\ [][NextErrors]_vars

\* The category the claim gives a failure of the transport.
Category(err) ==
    IF err.status = 429 THEN "UpstreamRateLimit"
    ELSE IF err.code = "ECONNABORTED" THEN "Timeout"
    ELSE IF err.status = 0 THEN "NetworkUnreachable"
    ELSE "UpstreamStatus"

\* The category of an error the ApiManager throws, by its message, and the
\* status the message carries.
MgrErrorKind(err, status) ==
    IF err.message = "Network Error: Unable to reach the server" THEN "NetworkUnreachable"
    ELSE IF err.message = "API Error: " \o ToString(status) \o " - " \o "Unknown error"
    THEN (IF status = 429 THEN "UpstreamRateLimit" ELSE "UpstreamStatus")
    ELSE "Other"

\* C24: every failure of the transport reaches the caller of a Data Client
\* call in the one category it belongs to: status 429 as the upstream
\* rate-limit error, a timeout as Timeout, no response without a timeout as
\* NetworkUnreachable, any other status as UpstreamStatus with its code.
C24_Claim ==
    /\ [][\A call \in ErrorCalls, outcome \in TransportFailures :
             ClientSettle(call, outcome)
                 => /\ ErrorKind(lastResult'.error) = Category(outcome.error)
                    /\ Category(outcome.error) = "UpstreamStatus"
                           => lastResult'.error.status = outcome.error.status]_vars
    /\ [][\A p \in MgrPendings, outcome \in TransportFailures :
             MgrFail(p, outcome)
                 => MgrErrorKind(mgrLast'.error, outcome.error.status)
                        = Category(outcome.error)]_vars

\* A request of the ApiManager timed out, and its caller got the error of
\* an unreachable network.
C24_TimeoutAsNetwork ==
    /\ mgrLast.outcome = "failed"
    /\ mgrLast.error.message = handleApiError(AxiosError("ECONNABORTED", 0))
    /\ mgrLast.error.message = handleApiError(AxiosError("ERR_NETWORK", 0))

\* A call of cryptoAPI timed out, and its caller got the timeout error.
C24_ClientTimeout ==
    /\ lastResult.network
    /\ ErrorKind(lastResult.error) = "Timeout"

(***************************************************************************)
(* C10.  Searches and the cache.                                           *)
(***************************************************************************)
\* A step that begins a search, through either client.
SearchBegins(q) == MgrSearch(q) \/ (q = SearchCall.arg /\ ClientSearch)

\* A step in which a search receives its answer.
SearchSettles ==
    \/ \E p \in MgrPendings, response \in MgrResponses :
          p.from = "searchCoins" /\ MgrSettle(p, response)
    \/ \E outcome \in NetOutcomes : ClientSettle(SearchCall, outcome)

\* The step ran the admission check of a limiter and, when admitted, put a
\* request on the network.
MgrWentThroughAdmission ==
    /\ mgrLast'.outcome \in {"sent", "denied"}
    /\ mgrLast'.outcome = "sent" =>
          /\ now \in rateLimiter'
          /\ BagCardinality(mgrPending') = BagCardinality(mgrPending) + 1

ClientWentThroughAdmission ==
    \/ /\ Len(requests') = Len(canMakeRequest(requests, now).requests) + 1
       /\ BagCardinality(inflight') = BagCardinality(inflight) + 1
    \/ lastResult'.denied /\ ~lastResult'.network

\* C10 as stated: no search reads or writes the cache, so the cache
\* entries are unchanged by any search call, and every search goes through
\* rate-limit admission and the network.
C10_Original ==
    [][/\ \A q \in SearchQueries :
             /\ MgrSearch(q) => (cache' = cache /\ MgrWentThroughAdmission)
             /\ (q = SearchCall.arg /\ ClientSearch) =>
                   (cache' = cache /\ ClientWentThroughAdmission)
       /\ SearchSettles => cache' = cache]_vars

\* C10 amended: no search reads or writes the cache, so the cache entries
\* are unchanged by any search call; every search whose query has at least
\* two characters goes through rate-limit admission and, when admitted, the
\* network, even while a fresh entry is stored under its key; and
\* ApiManager.searchCoins answers an empty or one-character query at once,
\* with neither admission nor network.
C10_SearchUncached ==
    [][/\ \A q \in SearchQueries :
             /\ MgrSearch(q) =>
                   /\ cache' = cache
                   /\ Len(q) >= 2 => MgrWentThroughAdmission
                   /\ Len(q) < 2 =>
                         /\ mgrLast'.outcome = "empty"
                         /\ rateLimiter' = rateLimiter
                         /\ mgrPending' = mgrPending
             /\ (q = SearchCall.arg /\ ClientSearch) =>
                   (cache' = cache /\ ClientWentThroughAdmission)
       /\ SearchSettles => cache' = cache]_vars

\* A search is on the network although a fresh entry is stored under its
\* key.
C10_Witness ==
    /\ mgrLast = [from |-> "searchCoins", outcome |-> "sent"]
    /\ \E p \in MgrPendings :
          /\ BagIn(p, mgrPending)
          /\ p.from = "searchCoins"
          /\ ~p.useCache
          /\ Fresh(cache[p.cacheKey])

(***************************************************************************)
(* The parser alone: parseMessage applied to what a user can type.         *)
(***************************************************************************)
\* Amounts as typed, with the number each stands for in thousandths
\* (numeric = FALSE: not a number).
Amounts ==
    { [text |-> "2", numeric |-> TRUE, value |-> 2000],
      [text |-> "10", numeric |-> TRUE, value |-> 10000],
      [text |-> "0.5", numeric |-> TRUE, value |-> 500],
      [text |-> "0", numeric |-> TRUE, value |-> 0],
      [text |-> "0.0", numeric |-> TRUE, value |-> 0],
      [text |-> "-2", numeric |-> TRUE, value |-> -2000],
      [text |-> "two", numeric |-> FALSE, value |-> 0] }
Coins == {"BTC", "btc", "Bitcoin", "ETH", "doge", "pepe"}
Verbs == {"I have", "i own", "Add", "buy", "Bought"}
Units == {"", " coins", " tokens"}

Said(verb, n, x) == verb \o " " \o n \o " " \o x
IHave(n, x) == Said("I have", n, x)

\* The examples of the help text and the quick actions, and a few more.
Phrases ==
    {"What's Bitcoin trading at?", "What's my portfolio worth?", "Show me trending coins",
     "Show chart for Bitcoin", "Tell me about Ethereum", "help", "  help ", "commands",
     "bitcoin price", "price of eth", "how much is doge?", "what is bitcoin",
     "my holdings", "show chart for ethereum 7 days", "hello", "",
     "show chart for top coins", "add 2 trending coins", "how much is my portfolio worth",
     "tell me about bitcoin", "info about eth", "information about doge", "What is Ethereum?",
     "what is bitcoin\ntoday"}

\* The trigger phrases of the INFO_REQUEST pattern, each before a coin name.
InfoPhrases == {"what is", "tell me about", "info about", "information about"}
Asked(phrase, x) == phrase \o " " \o x

Messages ==
    {Said(verb, n.text, x \o unit) : verb \in Verbs, n \in Amounts, x \in Coins, unit \in Units}
        \cup {Asked(phrase, x) : phrase \in InfoPhrases, x \in Coins}
        \cup Phrases

\* parseMessage keeps nothing between two calls: a behaviour parses one
\* message.
ParseMessage ==
    /\ parsedIntent = NoIntent
    /\ \E text \in Messages :
          /\ message' = text
          /\ parsedIntent' = parseMessage(text)
    /\ UNCHANGED notParse

NextParse == ParseMessage

SpecParse == Init /\ [][NextParse]_vars

\* C6: for every message "I have N X", parseMessage yields ADD_HOLDING with
\* amount N and coin alias(X) when N > 0, and another intent when N <= 0 or
\* N is not a number; no ADD_HOLDING intent has an amount that is not
\* positive.
C6_Claim ==
    /\ \A n \in Amounts, x \in Coins :
          message = IHave(n.text, x) =>
              IF n.numeric /\ n.value > 0
              THEN /\ parsedIntent.type = "ADD_HOLDING"
                   /\ parsedIntent.amount = n.value
                   /\ parsedIntent.coinName = normalizeCoinName(x)
              ELSE parsedIntent.type # "ADD_HOLDING"
    /\ parsedIntent.type = "ADD_HOLDING" => parsedIntent.amount > 0

\* "I have 0 BTC" parsed: an ADD_HOLDING intent whose amount is 0.
C6_ZeroAmount ==
    /\ message = IHave("0", "BTC")
    /\ parsedIntent.type = "ADD_HOLDING"
    /\ parsedIntent.amount = 0

\* The nine rules in the order parseMessage tries them, and the intent type
\* each gives.
Rules ==
    <<PRICE_TRADING, PRICE_QUERY, PRICE_SIMPLE, ADD_HOLDING, PORTFOLIO_VALUE, TRENDING,
      CHART_REQUEST, INFO_REQUEST, HELP>>
RuleTypes ==
    <<"PRICE_QUERY", "PRICE_QUERY", "PRICE_QUERY", "ADD_HOLDING", "PORTFOLIO_VALUE",
      "TRENDING", "CHART_REQUEST", "INFO_REQUEST", "HELP">>
Matching(text) == {k \in 1..Len(Rules) : Match(Rules[k], trim(text), TRUE).found}
First(ks) == CHOOSE k \in ks : \A j \in ks : k <= j

\* C15: the intent parseMessage returns is that of the first rule that
\* matches, in the order trading-at price, generic price, "X price",
\* ADD_HOLDING, PORTFOLIO_VALUE, TRENDING, CHART_REQUEST, INFO_REQUEST, HELP,
\* and it is GENERAL if and only if none of the nine matches.
C15_FirstMatchWins ==
    parsedIntent # NoIntent =>
        IF Matching(message) = {} THEN parsedIntent.type = "GENERAL"
        ELSE parsedIntent.type = RuleTypes[First(Matching(message))]

\* A message that the portfolio rule matches after the generic price rule,
\* parsed as a PRICE_QUERY.
C15_Witness ==
    /\ {2, 5} \subseteq Matching(message)
    /\ 1 \notin Matching(message)
    /\ parsedIntent.type = "PRICE_QUERY"

\* C16: "what is X", "tell me about X" and "info about X", X a coin name,
\* are each classified INFO_REQUEST with coinName the id X stands for.
C16_Claim ==
    \A phrase \in {"what is", "tell me about", "info about"}, x \in Coins :
        message = Asked(phrase, x) /\ parsedIntent # NoIntent =>
            /\ parsedIntent.type = "INFO_REQUEST"
            /\ parsedIntent.coinName = normalizeCoinName(x)

\* "what is Bitcoin" parsed: a PRICE_QUERY for bitcoin.
C16_WhatIsPrice ==
    /\ message = Asked("what is", "Bitcoin")
    /\ parsedIntent.type = "PRICE_QUERY"
    /\ parsedIntent.coinName = "bitcoin"

(***************************************************************************)
(* The portfolio store: the operations of usePortfolio, the refreshes they *)
(* start and the answers of the price endpoint, in any order.              *)
(***************************************************************************)
PfAdvances == {300000}
PfMaxClock == 300000
MaxRefreshes == 2
MaxAmount == 2000
PfCoins ==
    { [coinId |-> "bitcoin", coinName |-> "Bitcoin", coinSymbol |-> "btc"],
      [coinId |-> "pepe", coinName |-> "Pepe", coinSymbol |-> "PEPE"] }
PfAmounts == {1000}
UpdateAmounts == {-1000, 0, 1000}
\* The answers of the price endpoint: calculatePortfolioValue treats every
\* failure alike.
PfOutcomes == {outcome \in NetOutcomes : outcome.ok \/ outcome.error.code = "ERR_NETWORK"}

\* The render after setHoldings(newHoldings), the rest of the state as st
\* has it: the save effect and the refresh effect run.
Commit(newHoldings, st, last) ==
    LET effect == refreshEffect(newHoldings, st, now)
    IN  /\ holdings' = newHoldings
        /\ storage' = saveEffect(newHoldings)
        /\ requests' = effect.st.requests
        /\ refreshes' = effect.st.refreshes
        /\ loading' = effect.st.loading
        /\ error' = effect.st.error
        /\ portfolioValue' = effect.st.portfolioValue
        /\ interval' = effect.interval
        /\ pfLast' = last

\* Observation: every refresh in flight notes the coin an addHolding touches.
NoteAdd(st, coinId) ==
    [st EXCEPT !.refreshes = [k \in 1..Len(@) |-> [@[k] EXCEPT !.adds = @ \cup {coinId}]]]

HeldAmount(hs) == SeqSum([k \in 1..Len(hs) |-> hs[k].amount])

\* Time passes, never past the moment the interval is due.
PfTick ==
    /\ \E d \in PfAdvances :
          /\ now + d <= PfMaxClock
          /\ interval # NoInterval => now + d <= interval.due
          /\ now' = now + d
    /\ UNCHANGED <<requests, portfolioVars, notPortfolio>>

AddHolding(coin, amount) ==
    /\ Len(refreshes) < MaxRefreshes
    /\ HeldAmount(holdings) + amount <= MaxAmount
    /\ Commit(addHolding(holdings, coin.coinId, coin.coinName, coin.coinSymbol, amount, now),
              NoteAdd(Store, coin.coinId),
              NoOp)
    /\ UNCHANGED <<now, notPortfolio>>

RemoveHolding(holdingId) ==
    /\ Len(refreshes) < MaxRefreshes
    /\ Commit(removeHolding(holdings, holdingId), Store, NoOp)
    /\ UNCHANGED <<now, notPortfolio>>

UpdateHolding(holdingId, newAmount) ==
    /\ Len(refreshes) < MaxRefreshes
    /\ HeldAmount(updateHolding(holdings, holdingId, newAmount, now)) <= MaxAmount
    /\ Commit(updateHolding(holdings, holdingId, newAmount, now), Store,
              [op |-> "updateHolding", added |-> {}, holdingId |-> holdingId,
               newAmount |-> newAmount])
    /\ UNCHANGED <<now, notPortfolio>>

\* clearPortfolio: setHoldings([]) and setPortfolioValue(0).
ClearPortfolio ==
    /\ holdings # <<>>
    /\ Commit(<<>>, [Store EXCEPT !.portfolioValue = 0], NoOp)
    /\ UNCHANGED <<now, notPortfolio>>

\* The callback of the interval: calculatePortfolioValue as the effect that
\* set the interval saw it.
IntervalFire ==
    /\ interval # NoInterval
    /\ now = interval.due
    /\ Len(refreshes) < MaxRefreshes
    /\ LET st == calculatePortfolioValue(interval.holdings, Store, now)
       IN  /\ requests' = st.requests
           /\ refreshes' = st.refreshes
           /\ loading' = st.loading
           /\ error' = st.error
           /\ portfolioValue' = st.portfolioValue
    /\ interval' = [interval EXCEPT !.due = now + refreshInterval]
    /\ pfLast' = NoOp
    /\ UNCHANGED <<now, holdings, storage, notPortfolio>>

\* calculatePortfolioValue with setPortfolioValue(totalValue) in its finally
\* block: a failed refresh sets the value to the 0 the sum started with.
RefreshSettle_FailZeroes(k, outcome) ==
    LET refresh == refreshes[k]
        others == [j \in 1..(Len(refreshes) - 1) |->
                      IF j < k THEN refreshes[j] ELSE refreshes[j + 1]]
        settled == apiGetSettle(outcome)
        coinIds == {refresh.holdings[j].coinId : j \in 1..Len(refresh.holdings)}
        prices == PricesFor(coinIds, settled.body)
    IN  /\ IF settled.ok
           THEN Commit(updatedHoldings(refresh.holdings, prices, now),
                       [Store EXCEPT !.refreshes = others,
                                     !.portfolioValue = totalValue(refresh.holdings, prices),
                                     !.loading = FALSE],
                       [op |-> "calculatePortfolioValue",
                        added |-> {[coinId |-> holdings[j].coinId, amount |-> holdings[j].amount] :
                                      j \in {i \in 1..Len(holdings) :
                                                 holdings[i].coinId \in refresh.adds}}])
           ELSE /\ refreshes' = others
                /\ error' = FailedUpdateMessage
                /\ loading' = FALSE
                /\ pfLast' = NoOp
                /\ portfolioValue' = 0
                /\ UNCHANGED <<requests, holdings, storage, interval>>
        /\ UNCHANGED <<now, notPortfolio>>

\* getMultiplePrices settles for the k-th refresh in flight, and
\* calculatePortfolioValue runs from its await to its end.
RefreshSettle(k, outcome) ==
    LET refresh == refreshes[k]
        others == [j \in 1..(Len(refreshes) - 1) |->
                      IF j < k THEN refreshes[j] ELSE refreshes[j + 1]]
        settled == apiGetSettle(outcome)
        coinIds == {refresh.holdings[j].coinId : j \in 1..Len(refresh.holdings)}
        prices == PricesFor(coinIds, settled.body)
    IN  /\ IF settled.ok
           THEN Commit(updatedHoldings(refresh.holdings, prices, now),
                       [Store EXCEPT !.refreshes = others,
                                     !.portfolioValue = totalValue(refresh.holdings, prices),
                                     !.loading = FALSE],
                       [op |-> "calculatePortfolioValue",
                        added |-> {[coinId |-> holdings[j].coinId, amount |-> holdings[j].amount] :
                                      j \in {i \in 1..Len(holdings) :
                                                 holdings[i].coinId \in refresh.adds}}])
           ELSE /\ refreshes' = others
                /\ error' = FailedUpdateMessage
                /\ loading' = FALSE
                /\ pfLast' = NoOp
                /\ UNCHANGED <<requests, holdings, storage, portfolioValue, interval>>
        /\ UNCHANGED <<now, notPortfolio>>

NextPortfolio ==
    \/ PfTick
    \/ \E coin \in PfCoins, amount \in PfAmounts : AddHolding(coin, amount)
    \/ \E k \in 1..Len(holdings) : RemoveHolding(holdings[k].id)
    \/ \E k \in 1..Len(holdings), newAmount \in UpdateAmounts :
          UpdateHolding(holdings[k].id, newAmount)
    \/ ClearPortfolio
    \/ IntervalFire
    \/ \E k \in 1..Len(refreshes), outcome \in PfOutcomes : RefreshSettle(k, outcome)

SpecPortfolio == Init /\ [][NextPortfolio]_vars

\* Holding h as list hs has it: the same coin with the same amount.
Keeps(hs, h) ==
    \E k \in 1..Len(hs) : hs[k].coinId = h.coinId /\ hs[k].amount = h.amount

\* C1: when addHolding is applied while a refresh awaits its prices, then
\* once that refresh has completed the holding added, or the amount merged,
\* is still in the holdings and in the persisted storage.
C1_Claim ==
    pfLast.op = "calculatePortfolioValue" =>
        \A h \in pfLast.added : Keeps(holdings, h) /\ Keeps(storage, h)

\* A refresh has completed and a holding added while it awaited its prices
\* is in neither the holdings nor the storage.
C1_LostHolding ==
    /\ pfLast.op = "calculatePortfolioValue"
    /\ \E h \in pfLast.added : ~Keeps(holdings, h) /\ ~Keeps(storage, h)

\* The holdings of hs whose id is not holdingId, in their order.
Others(hs, holdingId) == SelectSeq(hs, LAMBDA holding : holding.id # holdingId)

\* holding with nothing but its amount and its lastUpdated replaced.
Amended(holding, newAmount, t) ==
    [f \in DOMAIN holding |->
        IF f = "amount" THEN newAmount
        ELSE IF f = "lastUpdated" THEN toISOString(t) ELSE holding[f]]

\* C12: updateHolding(id, newAmount) with newAmount <= 0 leaves no holding
\* with that id and every other holding as it was; with newAmount > 0 it
\* replaces the amount and lastUpdated of the holding with that id and
\* nothing else, and the number of holdings stays the same.
C12_UpdateHolding ==
    [][\A k \in 1..Len(holdings), newAmount \in UpdateAmounts :
          UpdateHolding(holdings[k].id, newAmount) =>
              IF newAmount <= 0
              THEN /\ \A j \in 1..Len(holdings') : holdings'[j].id # holdings[k].id
                   /\ holdings' = Others(holdings, holdings[k].id)
              ELSE /\ Len(holdings') = Len(holdings)
                   /\ \A j \in 1..Len(holdings) :
                         holdings'[j] = IF holdings[j].id = holdings[k].id
                                        THEN Amended(holdings[j], newAmount, now)
                                        ELSE holdings[j]]_vars

\* updateHolding has just removed a holding, and a holding with another id
\* is still in the ledger.
C12_Removed ==
    /\ pfLast.op = "updateHolding"
    /\ pfLast.newAmount <= 0
    /\ \A j \in 1..Len(holdings) : holdings[j].id # pfLast.holdingId
    /\ Len(holdings) = 1

\* updateHolding has just set an amount, a holding with another id beside it.
C12_Set ==
    /\ pfLast.op = "updateHolding"
    /\ pfLast.newAmount > 0
    /\ \E j, i \in 1..Len(holdings) :
          /\ holdings[j].id = pfLast.holdingId /\ holdings[j].amount = pfLast.newAmount
          /\ holdings[i].id # pfLast.holdingId

\* C29: a refresh that completes successfully, the holdings as they were
\* when it started, issues no price request and leaves no refresh in
\* flight: the next request waits for the interval or for a change of the
\* holdings.
C29_Claim ==
    [][\A k \in 1..Len(refreshes), outcome \in PfOutcomes :
          (/\ outcome.ok
           /\ Len(refreshes) = 1
           /\ refreshes[k].holdings = holdings
           /\ RefreshSettle(k, outcome))
              => /\ refreshes' = <<>>
                 /\ requests' = requests
                 /\ ~loading']_vars

\* A refresh has completed and the next one, started by its setHoldings,
\* is in flight for the holdings it has just valued.
C29_RefreshAgain ==
    /\ pfLast.op = "calculatePortfolioValue"
    /\ Len(refreshes) = 1
    /\ refreshes[1].holdings = holdings
    /\ "currentValue" \in DOMAIN holdings[1]
    /\ loading

\* One addHolding, and with no time passed the refreshes that follow one
\* another have filled the limiter of the Data Client: the last one was
\* denied.
C29_Exhausted ==
    /\ now = 0
    /\ pfLast.op = "calculatePortfolioValue"
    /\ Len(holdings) = 1
    /\ Len(requests) = maxRequests
    /\ refreshes = <<>>
    /\ error = FailedUpdateMessage

\* C30: whenever the ledger is empty and no refresh is in flight,
\* portfolioValue is 0.
C30_Claim == (holdings = <<>> /\ refreshes = <<>> /\ ~loading) => portfolioValue = 0

\* updateHolding(id, 0) has removed the last holding, no refresh is in
\* flight, and portfolioValue is still what the last refresh set.
C30_StaleValue ==
    /\ pfLast.op = "updateHolding"
    /\ pfLast.newAmount = 0
    /\ holdings = <<>>
    /\ refreshes = <<>>
    /\ ~loading
    /\ interval = NoInterval
    /\ portfolioValue > 0

\* The currentValue fields of the list, summed; a holding never valued
\* shows none.
ShownValue(hs) ==
    SeqSum([k \in 1..Len(hs) |->
               IF "currentValue" \in DOMAIN hs[k] THEN hs[k].currentValue ELSE 0])

\* C31: right after a refresh has completed successfully portfolioValue is
\* the sum of the currentValue fields of the holdings, also when the prices
\* returned have no record for the coin of a holding.
C31_Claim == pfLast.op = "calculatePortfolioValue" => portfolioValue = ShownValue(holdings)

\* A refresh has completed with prices that have no record for a holding
\* valued before: the holding shows its old currentValue and portfolioValue
\* is 0.
C31_StaleShown ==
    /\ pfLast.op = "calculatePortfolioValue"
    /\ Len(holdings) = 1
    /\ ShownValue(holdings) > 0
    /\ portfolioValue = 0

\* C33: a refresh whose getMultiplePrices fails leaves the holdings, what
\* is stored and portfolioValue as they are, sets the error of the store and
\* sets loading to false; it starts no other refresh.
C33_Claim ==
    [][\A k \in 1..Len(refreshes), outcome \in PfOutcomes :
          (~outcome.ok /\ RefreshSettle(k, outcome))
              => /\ UNCHANGED <<holdings, storage, portfolioValue, requests, interval>>
                 /\ error' = "Failed to update portfolio values"
                 /\ ~loading'
                 /\ Len(refreshes') = Len(refreshes) - 1]_vars

\* A refresh has failed on a ledger valued before: two holdings, one with
\* its value, and portfolioValue as the last successful refresh set it.
C33_FailedKeeps ==
    /\ error = "Failed to update portfolio values"
    /\ ~loading
    /\ refreshes = <<>>
    /\ pfLast = NoOp
    /\ Len(holdings) = 2
    /\ portfolioValue > 0
    /\ portfolioValue = ShownValue(holdings)

(***************************************************************************)
(* The ledger under addHolding alone: calls of addHolding, one after the   *)
(* other with no removal, and the refreshes the hook starts by itself.     *)
(***************************************************************************)
MaxAdded == 3000
LedgerAmounts == {1000, 2000}

AddedTo(sums, coinId, amount) ==
    [c \in DOMAIN sums \cup {coinId} |->
        (IF c \in DOMAIN sums THEN sums[c] ELSE 0) + (IF c = coinId THEN amount ELSE 0)]

AddedInAll(sums) ==
    IF DOMAIN sums = {} THEN 0
    ELSE LET ids == DOMAIN sums
             first == CHOOSE c \in ids : TRUE
         IN  sums[first] + (IF ids = {first} THEN 0
                            ELSE LET other == CHOOSE c \in ids \ {first} : TRUE
                                 IN  sums[other])

LedgerAdd(coin, amount) ==
    /\ Len(refreshes) < MaxRefreshes
    /\ AddedInAll(added) + amount <= MaxAdded
    /\ Commit(addHolding(holdings, coin.coinId, coin.coinName, coin.coinSymbol, amount, now),
              NoteAdd(Store, coin.coinId),
              NoOp)
    /\ added' = AddedTo(added, coin.coinId, amount)
    /\ UNCHANGED <<now, notLedger>>

NextLedger ==
    \/ PfTick
    \/ \E coin \in PfCoins, amount \in LedgerAmounts : LedgerAdd(coin, amount)
    \/ IntervalFire
    \/ \E k \in 1..Len(refreshes), outcome \in PfOutcomes : RefreshSettle(k, outcome)

SpecLedger == Init /\ [][NextLedger]_vars

\* C11: after any sequence of addHolding calls with no removal in between,
\* the ledger holds exactly one holding for every coinId added, its amount
\* the sum of the amounts added for that coinId, and no other holding.
C11_Claim ==
    /\ \A c \in DOMAIN added :
          /\ Cardinality({k \in 1..Len(holdings) : holdings[k].coinId = c}) = 1
          /\ \A k \in 1..Len(holdings) : holdings[k].coinId = c => holdings[k].amount = added[c]
    /\ \A k \in 1..Len(holdings) : holdings[k].coinId \in DOMAIN added

\* addHolding called twice for bitcoin, with 1 and 1, and the ledger has one
\* bitcoin holding of 1.
C11_LostAmount ==
    /\ "bitcoin" \in DOMAIN added
    /\ added["bitcoin"] = 2000
    /\ \E k \in 1..Len(holdings) : holdings[k].coinId = "bitcoin" /\ holdings[k].amount = 1000

(***************************************************************************)
(* The page loaded anew: the mount of usePortfolio, the load effect, the    *)
(* save effect and the render the load effect asks for, with what          *)
(* localStorage may hold and whether it can be used at all.                 *)
(***************************************************************************)
PersistAmounts == {1000}
PersistCoins == {coin \in PfCoins : coin.coinId = "bitcoin"}

Up == boot.phase = "up"

\* What the page finds stored when it is loaded: what the page before it
\* saved, nothing, or what something else left under the key.
Stored == {storage, Absent, Unparsable, NullText}

\* The first commit of usePortfolio in a page just loaded: every useState
\* at its initial value, no request of the page before in flight and the
\* limiter of the module new; then the effects in their order.  The load
\* effect reads the key and, for a string that parses, calls setHoldings,
\* which takes effect in the next render; the save effect writes the empty
\* list of this render; the refresh effect finds no holding.  With
\* localStorage denied getItem throws outside every try, and React unmounts
\* the page.
Restart(found, denied) ==
    LET parsed == JSONparse(found)
        set == ~denied /\ found # Absent /\ ~parsed.thrown
    IN  /\ boot' = [phase |-> IF denied THEN "crashed" ELSE IF set THEN "mounted" ELSE "up",
                    found |-> found,
                    queued |-> IF set THEN parsed.value ELSE <<>>,
                    denied |-> denied]
        /\ holdings' = <<>>
        /\ portfolioValue' = 0
        /\ loading' = FALSE
        /\ error' = Null
        /\ refreshes' = <<>>
        /\ interval' = NoInterval
        /\ requests' = <<>>
        /\ storage' = IF denied THEN found ELSE saveEffect(<<>>)
        /\ pfLast' = [op |-> "mount", added |-> {}]
        /\ UNCHANGED <<now, notPersist>>

\* The render setHoldings(parsed) of the load effect asked for.  A parsed
\* value that is null throws at holdings.length, and React unmounts the
\* page; a list is saved again and its refresh started.
Rerender ==
    /\ boot.phase = "mounted"
    /\ IF boot.queued = NullValue
       THEN /\ boot' = [boot EXCEPT !.phase = "crashed"]
            /\ UNCHANGED <<requests, portfolioVars>>
       ELSE /\ boot' = [boot EXCEPT !.phase = "up"]
            /\ Commit(boot.queued, Store, [op |-> "loaded", added |-> {}])
    /\ UNCHANGED <<now, notPersist>>

NextPersist ==
    \/ PfTick
    \/ \E coin \in PersistCoins, amount \in PersistAmounts : Up /\ AddHolding(coin, amount)
    \/ \E k \in 1..Len(holdings) : Up /\ RemoveHolding(holdings[k].id)
    \/ Up /\ ClearPortfolio
    \/ Up /\ IntervalFire
    \/ \E k \in 1..Len(refreshes), outcome \in PfOutcomes : Up /\ RefreshSettle(k, outcome)
    \/ \E found \in Stored, denied \in BOOLEAN : Restart(found, denied)
    \/ Rerender

SpecPersist == Init /\ [][NextPersist]_vars

\* The stored text is a list of holdings the save effect wrote.
SavedList(text) == \A k \in 1..Len(text) : "coinId" \in DOMAIN text[k]

\* C17: once the effects of a mutation have run the value saved is the
\* serialization of the holdings; after a restart the holdings loaded are
\* those last saved before it; and during the start the saved list is not
\* replaced by the empty list.
C17_Claim ==
    /\ Up => storage = saveEffect(holdings)
    /\ (Up /\ pfLast.op = "loaded") => holdings = JSONparse(boot.found).value
    /\ (boot.phase = "mounted" /\ SavedList(boot.found)) => storage = boot.found

\* The page is starting with a holding saved, the render of the loaded list
\* still to come, and localStorage holds the empty list.
C17_EmptiedAtStart ==
    /\ boot.phase = "mounted"
    /\ SavedList(boot.found)
    /\ Len(boot.found) = 1
    /\ storage = saveEffect(<<>>)

\* The holdings with change data and a value, as getPortfolioSummary
\* selects them.
WithChange(hs) == {k \in 1..Len(hs) : "change24h" \in DOMAIN hs[k] /\ hs[k].currentValue # 0}

\* The value-weighted average of the 24h changes of the holdings that
\* have change data: 0 when none has.
WeightedChange(hs) ==
    IF WithChange(hs) = {} THEN Ratio(0, 1)
    ELSE Ratio(SeqSum([k \in 1..Len(hs) |->
                          IF k \in WithChange(hs) THEN hs[k].change24h * hs[k].currentValue ELSE 0]),
               SeqSum([k \in 1..Len(hs) |->
                          IF k \in WithChange(hs) THEN hs[k].currentValue ELSE 0]))

\* Two quotients are the same number.
SameNumber(a, b) ==
    /\ a.den # 0
    /\ b.den # 0
    /\ IF a.den = b.den THEN a.num = b.num
       ELSE IF a.num = b.num THEN a.num = 0
       ELSE a.num * b.den = b.num * a.den

\* C26: in every state of the ledger getPortfolioSummary gives every valued
\* holding the percentage currentValue / totalValue * 100, 0 when totalValue
\* is 0, and as change24h the value-weighted average of the changes of the
\* holdings that have change data.
C26_Claim ==
    Up =>
        LET summary == getPortfolioSummary(holdings, portfolioValue)
        IN  /\ summary.totalCoins = Len(holdings)
            /\ \A k \in 1..Len(holdings) :
                   "currentValue" \in DOMAIN holdings[k] =>
                       SameNumber(summary.holdings[k].percentage,
                                  IF summary.totalValue = 0 THEN Ratio(0, 1)
                                  ELSE Ratio(holdings[k].currentValue * 100, summary.totalValue))
            /\ SameNumber(summary.change24h, WeightedChange(holdings))

\* Right after a reload: the holding loaded has its value and its change,
\* portfolioValue is 0, and the change24h of the summary is a division by 0.
C26_AfterReload ==
    /\ Up
    /\ pfLast.op = "loaded"
    /\ Len(holdings) = 1
    /\ "currentValue" \in DOMAIN holdings[1]
    /\ holdings[1].currentValue > 0
    /\ portfolioValue = 0
    /\ getPortfolioSummary(holdings, portfolioValue).change24h.den = 0
    /\ getPortfolioSummary(holdings, portfolioValue).holdings[1].percentage = Ratio(0, 1)

\* The start could not load what is stored: localStorage threw, or
\* JSON.parse did.
LoadFailed == boot.denied \/ JSONparse(boot.found).thrown

\* C18: when the persisted value cannot be loaded or parsed at the start,
\* the store starts with no holdings and stays usable: the page is up,
\* addHolding can be applied and getPortfolioSummary returns the summary of
\* an empty portfolio.
C18_Claim ==
    (LoadFailed /\ pfLast.op = "mount") =>
        /\ Up
        /\ holdings = <<>>
        /\ getPortfolioSummary(holdings, portfolioValue).totalCoins = 0
        /\ \A coin \in PersistCoins, amount \in PersistAmounts : ENABLED AddHolding(coin, amount)

\* The page was loaded with localStorage denied, and React has unmounted it.
C18_Crashed ==
    /\ boot.denied
    /\ boot.phase = "crashed"
    /\ pfLast.op = "mount"

\* The page was loaded with a string stored that JSON.parse throws on: it
\* is up with no holdings, and the empty list is saved.
C18_UnparsableSurvived ==
    /\ boot.found = Unparsable
    /\ ~boot.denied
    /\ pfLast.op = "mount"
    /\ Up
    /\ holdings = <<>>
    /\ storage = saveEffect(<<>>)

(***************************************************************************)
(* utils/messageParser.js generateResponse and ChatInterface               *)
(* handleSendMessage: a message is parsed, answered with the help of the   *)
(* Data Client and the portfolio store, and the reply appended.            *)
(***************************************************************************)
\* What the source records of a coin, and the coins it knows.
Catalogue ==
    [c \in DOMAIN Market |->
        IF c = "bitcoin"
        THEN [id |-> "bitcoin", symbol |-> "btc", name |-> "Bitcoin", rank |-> 1,
              marketCap |-> 900000]
        ELSE [id |-> "ethereum", symbol |-> "eth", name |-> "Ethereum", rank |-> 2,
              marketCap |-> 300000]]

\* The coin a search for `query` finds first, if any.
Found(query) ==
    {c \in DOMAIN Catalogue :
        toLowerCase(query) \in {c, Catalogue[c].symbol, toLowerCase(Catalogue[c].name)}}

\* Whether the source has the record call asks for.
Known(call) ==
    CASE call.op = "getTrendingCoins" -> TRUE
      [] call.op = "searchCoins" -> Found(call.arg) # {}
      [] OTHER -> call.arg \in DOMAIN Catalogue

\* The answers of the transport to call: the record only if the source has
\* it; a 2xx response without it only from the endpoints that answer so
\* (/simple/price with {}, /search with no coins).
Answers(call) ==
    {outcome \in NetOutcomes :
        outcome.ok =>
            IF outcome.body = "record" THEN Known(call)
            ELSE call.op \in {"getCurrentPrice", "searchCoins"}}

\* What an operation of cryptoAPI returns from a response with the record.
operationData(call) ==
    CASE call.op = "getCurrentPrice" ->
            [price |-> Market[call.arg].usd,
             change24h |-> Market[call.arg].usd_24h_change,
             marketCap |-> Catalogue[call.arg].marketCap]
      [] call.op = "getCoinDetails" ->
            [id |-> call.arg,
             name |-> Catalogue[call.arg].name,
             symbol |-> toUpperCase(Catalogue[call.arg].symbol),
             currentPrice |-> Market[call.arg].usd,
             marketCap |-> Catalogue[call.arg].marketCap,
             change24h |-> Market[call.arg].usd_24h_change,
             rank |-> Catalogue[call.arg].rank]
      [] call.op = "getTrendingCoins" ->
            <<[id |-> "bitcoin", name |-> "Bitcoin", symbol |-> "btc", rank |-> 1]>>
      [] call.op = "getHistoricalData" ->
            <<[timestamp |-> 0, price |-> Market[call.arg].usd]>>
      [] call.op = "searchCoins" ->
            LET c == CHOOSE c \in Found(call.arg) : TRUE
            IN  <<[id |-> c, name |-> Catalogue[c].name,
                   symbol |-> toUpperCase(Catalogue[c].symbol), rank |-> Catalogue[c].rank]>>

\* What the caller of an operation gets once the transport has answered:
\* the data, or the error thrown.
operationOutcome(call, settled) ==
    LET err == operationResult(call, settled)
    IN  IF err # NoError THEN [ok |-> FALSE, error |-> err]
        ELSE IF settled.body = "record" THEN [ok |-> TRUE, data |-> operationData(call)]
        ELSE [ok |-> TRUE, data |-> <<>>]

\* A reply of generateResponse.  text is the template literal with the
\* values it interpolates.
Undefined == [undefined |-> TRUE]
Text(template, values) == [template |-> template, values |-> values]
Reply(text, data) == [text |-> text, data |-> data, showChart |-> FALSE, error |-> FALSE]
\* The chart reply without showChart: true.
ChartReply_NoChart(text, data) ==
    [text |-> text, data |-> data, showChart |-> FALSE, error |-> FALSE]

ChartReply(text, data) == [text |-> text, data |-> data, showChart |-> TRUE, error |-> FALSE]
\* The catch block without error: true.
ErrorReply_Unflagged(err) ==
    [text |-> Text("Sorry, I encountered an error: ${error.message}. Please try again.",
                   <<err.message>>),
     data |-> Undefined, showChart |-> FALSE, error |-> FALSE]

ErrorReply(err) ==
    [text |-> Text("Sorry, I encountered an error: ${error.message}. Please try again.",
                   <<err.message>>),
     data |-> Undefined, showChart |-> FALSE, error |-> TRUE]
ChartNotFound(intent) ==
    Error("Could not find chart data for \"" \o intent.originalCoinName
              \o "\". Try using the full name or symbol.")

\* The chart case asking for the details a second time where it should ask
\* for the history.
StageCall_DetailsTwice(intent, stage, found) ==
    CASE stage = "price" -> [op |-> "getCurrentPrice", arg |-> intent.coinName]
      [] stage = "details" -> [op |-> "getCoinDetails", arg |-> intent.coinName]
      [] stage = "trending" -> [op |-> "getTrendingCoins", arg |-> ""]
      [] stage = "history" -> [op |-> "getCoinDetails", arg |-> intent.coinName]
      [] stage = "search" -> [op |-> "searchCoins", arg |-> intent.originalCoinName]
      [] stage = "fallbackHistory" -> [op |-> "getHistoricalData", arg |-> found.id]

\* The operation generateResponse awaits at each of its stages.
StageCall(intent, stage, found) ==
    CASE stage = "price" -> [op |-> "getCurrentPrice", arg |-> intent.coinName]
      [] stage = "details" -> [op |-> "getCoinDetails", arg |-> intent.coinName]
      [] stage = "trending" -> [op |-> "getTrendingCoins", arg |-> ""]
      [] stage = "history" -> [op |-> "getHistoricalData", arg |-> intent.coinName]
      [] stage = "search" -> [op |-> "searchCoins", arg |-> intent.originalCoinName]
      [] stage = "fallbackHistory" -> [op |-> "getHistoricalData", arg |-> found.id]

NoAdd == [coinId |-> ""]
Done(reply, reqs, add) ==
    [done |-> TRUE, reply |-> reply, requests |-> reqs, add |-> add, trail |-> <<>>]

\* Observation: a cryptoAPI call and how it ended for generateResponse, with
\* the message of the error thrown or the number of results returned.
Called(call, result) ==
    [op |-> call.op, arg |-> call.arg, ok |-> result.ok,
     message |-> IF result.ok THEN "" ELSE result.error.message,
     results |-> IF result.ok /\ call.op = "searchCoins" THEN Len(result.data) ELSE 0]
After(called, r) == [r EXCEPT !.trail = <<called>> \o @]

\* generateResponse from one await to the next: Await begins the call of a
\* stage, which fails at once when the request interceptor rejects it;
\* Resume runs on from the result of the call awaited.  found is what the
\* earlier stages of a chart request have found (the coin's details, the
\* first search result).
RECURSIVE Await(_, _, _, _, _), Resume(_, _, _, _, _, _)
Await(intent, stage, found, reqs, t) ==
    LET got == apiGetStart(reqs, t)
        rejected == [ok |-> FALSE, error |-> got.error]
    IN  IF got.sent
        THEN [done |-> FALSE, requests |-> got.requests, trail |-> <<>>,
              pending |-> [intent |-> intent, stage |-> stage, found |-> found]]
        ELSE After(Called(StageCall(intent, stage, found), rejected),
                   Resume(intent, stage, found, rejected, got.requests, t))

Resume(intent, stage, found, result, reqs, t) ==
    CASE intent.type = "PRICE_QUERY" ->
            IF result.ok
            THEN Done(Reply(Text("${intent.originalCoinName.toUpperCase()} is currently trading at $${priceData.price.toLocaleString()} (${changeText} ${Math.abs(priceData.change24h).toFixed(2)}% in 24h)",
                                 <<toUpperCase(intent.originalCoinName), result.data.price,
                                   IF result.data.change24h > 0 THEN "up" ELSE "down",
                                   result.data.change24h>>),
                            [priceData |-> result.data,
                             changeColor |-> IF result.data.change24h > 0
                                             THEN "positive" ELSE "negative"]),
                      reqs, NoAdd)
            ELSE Done(ErrorReply(result.error), reqs, NoAdd)
      [] intent.type = "ADD_HOLDING" ->
            IF result.ok
            THEN Done(Reply(Text("Added ${intent.amount} ${coinDetails.symbol} to your portfolio! Current value: $${(intent.amount * coinDetails.currentPrice).toLocaleString()}",
                                 <<intent.amount, result.data.symbol,
                                   intent.amount * result.data.currentPrice>>),
                            [coinDetails |-> result.data, amount |-> intent.amount]),
                      reqs,
                      [coinId |-> intent.coinName, coinName |-> result.data.name,
                       coinSymbol |-> result.data.symbol, amount |-> intent.amount])
            ELSE Done(ErrorReply(result.error), reqs, NoAdd)
      [] intent.type = "TRENDING" ->
            IF result.ok
            THEN Done(Reply(Text("Here are today's top trending cryptocurrencies:\n\n${trendingList}",
                                 <<SubSeq(result.data, 1, IF Len(result.data) < 5 THEN Len(result.data) ELSE 5)>>),
                            [trending |-> result.data]),
                      reqs, NoAdd)
            ELSE Done(ErrorReply(result.error), reqs, NoAdd)
      [] intent.type = "INFO_REQUEST" ->
            IF result.ok
            THEN Done(Reply(Text("${info.name} (${info.symbol}) is currently ranked #${info.rank} with a market cap of $${info.marketCap?.toLocaleString() || 'N/A'}. ${info.description}",
                                 <<result.data.name, result.data.symbol, result.data.rank,
                                   result.data.marketCap>>),
                            [info |-> result.data]),
                      reqs, NoAdd)
            ELSE Done(ErrorReply(result.error), reqs, NoAdd)
      [] intent.type = "CHART_REQUEST" /\ stage = "details" ->
            IF result.ok THEN Await(intent, "history", result.data, reqs, t)
            ELSE Await(intent, "search", found, reqs, t)
      [] intent.type = "CHART_REQUEST" /\ stage = "history" ->
            IF result.ok
            THEN Done(ChartReply(Text("Here's the 7-day price chart for ${coinDetails.name}:",
                                      <<found.name>>),
                                 [chartData |-> result.data, coinName |-> found.name]),
                      reqs, NoAdd)
            ELSE Await(intent, "search", found, reqs, t)
      [] intent.type = "CHART_REQUEST" /\ stage = "search" ->
            IF result.ok /\ Len(result.data) > 0
            THEN Await(intent, "fallbackHistory", result.data[1], reqs, t)
            ELSE Done(ErrorReply(ChartNotFound(intent)), reqs, NoAdd)
      [] intent.type = "CHART_REQUEST" /\ stage = "fallbackHistory" ->
            IF result.ok
            THEN Done(ChartReply(Text("Here's the 7-day price chart for ${firstResult.name}:",
                                      <<found.name>>),
                                 [chartData |-> result.data, coinName |-> found.name]),
                      reqs, NoAdd)
            ELSE Done(ErrorReply(ChartNotFound(intent)), reqs, NoAdd)

EmptyPortfolioText ==
    "Your portfolio is empty. Try adding some holdings by saying something like 'I have 2 ETH'"
HelpText == "I can help you with cryptocurrency information! Try asking me: ..."
DefaultText ==
    "I'm not sure how to help with that. Try asking about cryptocurrency prices, your portfolio, or trending coins. Say 'help' to see what I can do!"

\* generateResponse with the HELP and default cases answered like TRENDING.
generateResponse_HelpFetches(intent, hs, value, reqs, t) ==
    CASE intent.type = "PRICE_QUERY" -> Await(intent, "price", Undefined, reqs, t)
      [] intent.type \in {"ADD_HOLDING", "INFO_REQUEST", "CHART_REQUEST"} ->
            Await(intent, "details", Undefined, reqs, t)
      [] intent.type = "TRENDING" -> Await(intent, "trending", Undefined, reqs, t)
      [] intent.type = "PORTFOLIO_VALUE" ->
            LET summary == getPortfolioSummary(hs, value)
            IN  IF summary.totalCoins = 0
                THEN Done(Reply(Text(EmptyPortfolioText, <<>>), Undefined), reqs, NoAdd)
                ELSE Done(Reply(Text("Your portfolio is worth $${summary.totalValue.toLocaleString()} across ${summary.totalCoins} different cryptocurrencies (${changeText2} ${Math.abs(summary.change24h).toFixed(2)}% today)",
                                     <<summary.totalValue, summary.totalCoins,
                                       IF summary.change24h.num > 0 THEN "up" ELSE "down",
                                       summary.change24h>>),
                                [summary |-> summary]),
                          reqs, NoAdd)
      [] OTHER -> Await([intent EXCEPT !.type = "TRENDING"], "trending", Undefined, reqs, t)

\* generateResponse from its call to its first await, or to its end for the
\* intents that await nothing.  hs and value are the holdings and the
\* portfolioValue of the render whose portfolio object the caller holds.
generateResponse(intent, hs, value, reqs, t) ==
    CASE intent.type = "PRICE_QUERY" -> Await(intent, "price", Undefined, reqs, t)
      [] intent.type \in {"ADD_HOLDING", "INFO_REQUEST", "CHART_REQUEST"} ->
            Await(intent, "details", Undefined, reqs, t)
      [] intent.type = "TRENDING" -> Await(intent, "trending", Undefined, reqs, t)
      [] intent.type = "PORTFOLIO_VALUE" ->
            LET summary == getPortfolioSummary(hs, value)
            IN  IF summary.totalCoins = 0
                THEN Done(Reply(Text(EmptyPortfolioText, <<>>), Undefined), reqs, NoAdd)
                ELSE Done(Reply(Text("Your portfolio is worth $${summary.totalValue.toLocaleString()} across ${summary.totalCoins} different cryptocurrencies (${changeText2} ${Math.abs(summary.change24h).toFixed(2)}% today)",
                                     <<summary.totalValue, summary.totalCoins,
                                       IF summary.change24h.num > 0 THEN "up" ELSE "down",
                                       summary.change24h>>),
                                [summary |-> summary]),
                          reqs, NoAdd)
      [] intent.type = "HELP" -> Done(Reply(Text(HelpText, <<>>), Undefined), reqs, NoAdd)
      [] OTHER -> Done(Reply(Text(DefaultText, <<>>), Undefined), reqs, NoAdd)


(***************************************************************************)
(* The chat: messages typed or clicked one after the other, the answers of *)
(* the transport, and the refreshes of the portfolio store.                *)
(***************************************************************************)
MaxChat == 2
ChatMessages ==
    {"I have 2 BTC", "What's my portfolio worth?", "my holdings", "help",
     "Show me trending coins", "Show chart for Bitcoin", "Show chart for pepe",
     "Tell me about Ethereum", "hello there", "bitcoin price"}

\* parseMessage on the messages of the chat.
ChatIntents == [text \in ChatMessages |-> parseMessage(text)]

UserMessages(log) == Cardinality({k \in 1..Len(log) : log[k].isUser})

UserMessage(text, t) == [id |-> t, text |-> text, isUser |-> TRUE, timestamp |-> t]
AssistantMessage(response, t) ==
    [id |-> t + 1, text |-> response.text, data |-> response.data,
     showChart |-> response.showChart, error |-> response.error, isUser |-> FALSE,
     timestamp |-> t]

\* handleSendMessage up to the first await that goes to the transport, or to
\* its end when generateResponse needs none: InputArea submits, and the
\* quick actions are enabled, only while isProcessing is false.
handleSendMessage(text) ==
    /\ UserMessages(messages) < MaxChat
    /\ LET r == generateResponse(ChatIntents[text], holdings, portfolioValue, requests, now)
       IN  /\ requests' = r.requests
           /\ IF r.done
              THEN /\ messages' = messages \o <<UserMessage(text, now),
                                                AssistantMessage(r.reply, now)>>
                   /\ isProcessing' = FALSE
                   /\ chatLast' = [intent |-> ChatIntents[text], trail |-> r.trail,
                                   reply |-> r.reply]
                   /\ UNCHANGED responding
              ELSE /\ messages' = Append(messages, UserMessage(text, now))
                   /\ isProcessing' = TRUE
                   /\ responding' =
                         Append(responding, [text |-> text, trail |-> r.trail] @@ r.pending)
                   /\ UNCHANGED chatLast
    /\ UNCHANGED <<now, portfolioVars, notChatVoice>>

\* A submit of InputArea or a click on a quick action, both possible only
\* while isProcessing is false.
SendMessage(text) ==
    /\ ~isProcessing
    /\ handleSendMessage(text)
    /\ UNCHANGED voiceVars

\* The transport answers the call the k-th message in progress awaits:
\* generateResponse runs on to its next await or to its reply, which
\* handleSendMessage appends.
Respond(k, outcome) ==
    LET p == responding[k]
        call == StageCall(p.intent, p.stage, p.found)
        result == operationOutcome(call, apiGetSettle(outcome))
        r == Resume(p.intent, p.stage, p.found, result, requests, now)
        trail == Append(p.trail, Called(call, result)) \o r.trail
        others == [j \in 1..(Len(responding) - 1) |->
                      IF j < k THEN responding[j] ELSE responding[j + 1]]
    IN  /\ outcome \in Answers(call)
        /\ IF r.done
           THEN /\ messages' = Append(messages, AssistantMessage(r.reply, now))
                /\ isProcessing' = FALSE
                /\ responding' = others
                /\ chatLast' = [intent |-> p.intent, trail |-> trail, reply |-> r.reply]
                /\ IF r.add # NoAdd
                   THEN Commit(addHolding(holdings, r.add.coinId, r.add.coinName,
                                          r.add.coinSymbol, r.add.amount, now),
                               NoteAdd([Store EXCEPT !.requests = r.requests], r.add.coinId),
                               NoOp)
                   ELSE /\ requests' = r.requests
                        /\ UNCHANGED portfolioVars
           ELSE /\ responding' =
                      [responding EXCEPT ![k] = [text |-> p.text, trail |-> trail] @@ r.pending]
                /\ requests' = r.requests
                /\ UNCHANGED <<messages, isProcessing, chatLast, portfolioVars>>
        /\ UNCHANGED <<now, notChat>>

NextChat ==
    \/ PfTick
    \/ \E text \in ChatMessages : SendMessage(text)
    \/ \E k \in 1..Len(responding), outcome \in PfOutcomes : Respond(k, outcome)
    \/ IntervalFire
    \/ \E k \in 1..Len(refreshes), outcome \in PfOutcomes : RefreshSettle(k, outcome)

SpecChat == Init /\ [][NextChat]_vars

\* C22: answering a HELP or a GENERAL intent calls no operation of
\* cryptoAPI and changes nothing in the portfolio store: the limiter of the
\* Data Client, the cache and the limiter of the ApiManager, the holdings and
\* the storage are as before, nothing is awaited, and the reply has no error
\* flag.
C22_HelpGeneral ==
    [][\A text \in ChatMessages :
          (ChatIntents[text].type \in {"HELP", "GENERAL"} /\ SendMessage(text))
              => /\ UNCHANGED <<requests, rateLimiter, cache, holdings, storage, portfolioValue>>
                 /\ responding' = responding
                 /\ ~isProcessing'
                 /\ chatLast'.intent = ChatIntents[text]
                 /\ chatLast'.trail = <<>>
                 /\ ~chatLast'.reply.error]_vars

\* "help" was answered with requests of the window recorded and a holding
\* in the ledger.
C22_HelpAnswered ==
    /\ chatLast.intent.type = "HELP"
    /\ chatLast.reply.text.template = HelpText
    /\ requests # <<>>
    /\ holdings # <<>>

C22_GeneralAnswered ==
    /\ chatLast.intent.type = "GENERAL"
    /\ chatLast.reply.text.template = DefaultText
    /\ requests # <<>>

\* C27: a PORTFOLIO_VALUE intent is answered at once without a call of
\* cryptoAPI; on an empty ledger the reply is the guidance message with no
\* data and no error flag, on a ledger with holdings the reply's
\* data.summary.totalCoins is the number of holdings.
C27_PortfolioValue ==
    [][\A text \in ChatMessages :
          (ChatIntents[text].type = "PORTFOLIO_VALUE" /\ SendMessage(text))
              => /\ UNCHANGED <<requests, rateLimiter, cache, holdings, storage>>
                 /\ responding' = responding
                 /\ ~isProcessing'
                 /\ chatLast'.intent = ChatIntents[text]
                 /\ chatLast'.trail = <<>>
                 /\ ~chatLast'.reply.error
                 /\ messages'[Len(messages')].text = chatLast'.reply.text
                 /\ messages'[Len(messages')].data = chatLast'.reply.data
                 /\ IF holdings = <<>>
                    THEN /\ chatLast'.reply.text = Text(EmptyPortfolioText, <<>>)
                         /\ chatLast'.reply.data = Undefined
                    ELSE /\ chatLast'.reply.text.template # EmptyPortfolioText
                         /\ chatLast'.reply.data.summary.totalCoins = Len(holdings)]_vars

\* "my holdings" was answered with the guidance message on an empty ledger.
C27_Guidance ==
    /\ chatLast.intent.type = "PORTFOLIO_VALUE"
    /\ holdings = <<>>
    /\ chatLast.reply.text.template = EmptyPortfolioText
    /\ chatLast.reply.data = Undefined

\* "my holdings" was answered with the summary of a ledger of one holding
\* no refresh has valued yet.
C27_Summary ==
    /\ chatLast.intent.type = "PORTFOLIO_VALUE"
    /\ Len(holdings) = 1
    /\ "currentValue" \notin DOMAIN holdings[1]
    /\ chatLast.reply.data # Undefined
    /\ chatLast.reply.data.summary.totalCoins = 1

\* How much of a coin the list holds.
CoinAmount(hs, coinId) ==
    SeqSum([k \in 1..Len(hs) |-> IF hs[k].coinId = coinId THEN hs[k].amount ELSE 0])

\* C23: an ADD_HOLDING intent first awaits getCoinDetails, the holdings and
\* the storage as they were; when that call fails they stay so and the reply
\* has error = true; when it succeeds the amount of the intent is added once
\* to the coin of the intent, every other holding is as before, and the
\* reply has no error flag.
C23_AddAfterDetails ==
    /\ [][\A text \in ChatMessages :
             (ChatIntents[text].type = "ADD_HOLDING" /\ SendMessage(text))
                 => /\ UNCHANGED <<holdings, storage>>
                    /\ IF isProcessing'
                       THEN responding'[Len(responding')].stage = "details"
                       ELSE chatLast'.reply.error /\ chatLast'.intent = ChatIntents[text]]_vars
    /\ [][\A k \in 1..Len(responding), outcome \in PfOutcomes :
             (responding[k].intent.type = "ADD_HOLDING" /\ Respond(k, outcome))
                 => LET intent == responding[k].intent
                        coinDetails ==
                            operationOutcome(StageCall(intent, "details", Undefined),
                                             apiGetSettle(outcome))
                    IN  IF coinDetails.ok
                        THEN /\ CoinAmount(holdings', intent.coinName) =
                                    CoinAmount(holdings, intent.coinName) + intent.amount
                             /\ Len(holdings') =
                                    Len(holdings)
                                        + (IF CoinAmount(holdings, intent.coinName) > 0 THEN 0 ELSE 1)
                             /\ \A j \in 1..Len(holdings) :
                                    holdings[j].coinId # intent.coinName => holdings'[j] = holdings[j]
                             /\ storage' = saveEffect(holdings')
                             /\ ~chatLast'.reply.error
                        ELSE /\ UNCHANGED <<holdings, storage>>
                             /\ chatLast'.reply.error]_vars

\* "I have 2 BTC" was answered after getCoinDetails succeeded, and the
\* ledger holds the 2 BTC.
C23_Added ==
    /\ chatLast.intent.type = "ADD_HOLDING"
    /\ ~chatLast.reply.error
    /\ Len(chatLast.trail) = 1
    /\ chatLast.trail[1].op = "getCoinDetails"
    /\ chatLast.trail[1].ok
    /\ CoinAmount(holdings, chatLast.intent.coinName) = chatLast.intent.amount
    /\ storage = saveEffect(holdings)

\* It was answered after getCoinDetails failed, and the ledger is empty.
C23_NotAdded ==
    /\ chatLast.intent.type = "ADD_HOLDING"
    /\ chatLast.reply.error
    /\ chatLast.trail[1].op = "getCoinDetails"
    /\ ~chatLast.trail[1].ok
    /\ holdings = <<>>
    /\ storage = saveEffect(<<>>)

\* The second "I have 2 BTC" was answered, and the one holding has 4.
C23_Merged ==
    /\ chatLast.intent.type = "ADD_HOLDING"
    /\ ~chatLast.reply.error
    /\ Len(holdings) = 1
    /\ holdings[1].amount = 2 * chatLast.intent.amount

\* C25: getCurrentPrice throws the not-found error exactly when the 2xx
\* response has no record of the coin, and returns the price record when it
\* has one; so a PRICE_QUERY for a coin the source has no record of is
\* answered with an error reply that names the coin, and one for a coin it
\* has with the price.
C25_NotFound ==
    [][\A k \in 1..Len(responding), outcome \in PfOutcomes :
          (responding[k].intent.type = "PRICE_QUERY" /\ outcome.ok /\ Respond(k, outcome))
              => LET coinId == responding[k].intent.coinName
                     called == chatLast'.trail[Len(chatLast'.trail)]
                 IN  /\ chatLast'.intent = responding[k].intent
                     /\ called.op = "getCurrentPrice"
                     /\ called.arg = coinId
                     /\ IF outcome.body = "record"
                        THEN /\ called.ok
                             /\ ~chatLast'.reply.error
                             /\ chatLast'.reply.data.priceData.price = Market[coinId].usd
                             /\ chatLast'.reply.data.priceData.change24h = Market[coinId].usd_24h_change
                        ELSE /\ ~called.ok
                             /\ called.message = NotFoundMessage(coinId)
                             /\ chatLast'.reply = ErrorReply(Error(NotFoundMessage(coinId)))]_vars

\* A price was asked of a coin the source answers {} for, and the reply is
\* the error reply.
C25_Unknown ==
    /\ chatLast.intent.type = "PRICE_QUERY"
    /\ chatLast.intent.coinName \notin DOMAIN Market
    /\ chatLast.reply = ErrorReply(Error(NotFoundMessage(chatLast.intent.coinName)))

\* "bitcoin price" was answered with the price.
C25_Priced ==
    /\ chatLast.intent.type = "PRICE_QUERY"
    /\ chatLast.intent.coinName = "bitcoin"
    /\ ~chatLast.reply.error
    /\ chatLast.reply.data.priceData.price = Market["bitcoin"].usd

\* C5: "I have 2 BTC", its details fetched, and then "What's my portfolio
\* worth?": the second message is classified PORTFOLIO_VALUE and nothing
\* else, and its reply is the portfolio summary with totalCoins = 1,
\* holdings[0].coinSymbol = "BTC" and holdings[0].amount = 2.
C5_Claim ==
    ( /\ Len(messages) = 5
      /\ messages[2].isUser /\ messages[2].text = "I have 2 BTC"
      /\ ~messages[3].isUser /\ ~messages[3].error
      /\ messages[4].isUser /\ messages[4].text = "What's my portfolio worth?"
      /\ ~messages[5].isUser )
        => /\ ChatIntents[messages[4].text].type = "PORTFOLIO_VALUE"
           /\ "summary" \in DOMAIN messages[5].data
           /\ messages[5].data.summary.totalCoins = 1
           /\ messages[5].data.summary.holdings[1].coinSymbol = "BTC"
           /\ messages[5].data.summary.holdings[1].amount = 2000

\* The two messages answered, the second one parsed as a PRICE_QUERY for the
\* coin "my portfolio worth" and answered without a portfolio summary.
C5_PriceQuery ==
    /\ Len(messages) = 5
    /\ messages[2].isUser /\ messages[2].text = "I have 2 BTC"
    /\ ~messages[3].isUser /\ ~messages[3].error
    /\ messages[4].isUser /\ messages[4].text = "What's my portfolio worth?"
    /\ ~messages[5].isUser
    /\ ChatIntents[messages[4].text].type = "PRICE_QUERY"
    /\ ChatIntents[messages[4].text].originalCoinName = "my portfolio worth"
    /\ "summary" \notin DOMAIN messages[5].data

\* The failures among the calls of a trail, in their order.
Failures(trail) == SelectSeq(trail, LAMBDA called : ~called.ok)

\* C13: generateResponse always resolves to a reply.  For an intent other
\* than CHART_REQUEST the reply has error = true exactly when the cryptoAPI
\* call made for it failed, and its text then carries that failure's
\* message.  For a CHART_REQUEST a failed call leads to the fallback: the
\* reply is a chart reply whose last call succeeded, or an error reply
\* whose text is the "Could not find chart data" message naming the
\* original input.
C13_ErrorReplies ==
    chatLast.intent.type # "none" =>
        LET reply == chatLast.reply
            failed == Failures(chatLast.trail)
        IN  IF chatLast.intent.type = "CHART_REQUEST"
            THEN IF reply.error
                 THEN /\ failed # <<>>
                      /\ reply = ErrorReply(ChartNotFound(chatLast.intent))
                 ELSE /\ reply.showChart
                      /\ chatLast.trail[Len(chatLast.trail)].ok
            ELSE IF failed # <<>>
                 THEN /\ Len(chatLast.trail) = 1
                      /\ reply = ErrorReply(Error(failed[1].message))
                 ELSE ~reply.error

\* A PRICE_QUERY whose call failed has been answered with the error reply.
C13_Witness ==
    /\ chatLast.intent.type = "PRICE_QUERY"
    /\ Failures(chatLast.trail) # <<>>
    /\ chatLast.reply.error
    /\ ~isProcessing

\* C13 as stated: whatever the intent, every failure of a call made while
\* handling it ends in a reply with error = true whose text carries that
\* failure's message.
C13_Original ==
    chatLast.intent.type # "none" =>
        \A k \in 1..Len(chatLast.trail) :
            ~chatLast.trail[k].ok =>
                /\ chatLast.reply.error
                /\ chatLast.reply.text.values = <<chatLast.trail[k].message>>

\* The calls of a chart request after its primary lookup (the details, then
\* the history of the resolved id) has failed: the search and what follows.
\* <<>> when the primary lookup did not fail.
Fallback(trail) ==
    IF trail = <<>> \/ trail[1].op # "getCoinDetails" THEN <<>>
    ELSE IF ~trail[1].ok THEN SubSeq(trail, 2, Len(trail))
    ELSE IF Len(trail) >= 2 /\ trail[2].op = "getHistoricalData" /\ ~trail[2].ok
    THEN SubSeq(trail, 3, Len(trail))
    ELSE <<>>

\* C14: a CHART_REQUEST whose primary lookup failed.  When the search for
\* the name the user typed fails or returns nothing, or the history lookup
\* for its first result fails, the reply has error = true and its text
\* names the original input; when the search returns a result and the
\* history lookup for the first one succeeds, the reply has showChart =
\* true and is for that first result.
C14_ChartFallback ==
    (chatLast.intent.type = "CHART_REQUEST" /\ Fallback(chatLast.trail) # <<>>) =>
        LET reply == chatLast.reply
            rest == Fallback(chatLast.trail)
            typed == chatLast.intent.originalCoinName
        IN  /\ rest[1].op = "searchCoins" /\ rest[1].arg = typed
            /\ IF ~rest[1].ok \/ rest[1].results = 0 \/ (Len(rest) >= 2 /\ ~rest[2].ok)
               THEN /\ reply.error
                    /\ ~reply.showChart
                    /\ reply.text.values =
                          <<"Could not find chart data for \"" \o typed
                                \o "\". Try using the full name or symbol.">>
               ELSE /\ Len(rest) = 2
                    /\ rest[2].op = "getHistoricalData"
                    /\ rest[2].arg \in Found(typed)
                    /\ reply.showChart
                    /\ ~reply.error
                    /\ reply.data.coinName = Catalogue[rest[2].arg].name

\* A chart was asked for "pepe": the details lookup failed, the search
\* returned nothing, and the reply is the error naming "pepe".
C14_NoResults ==
    /\ chatLast.intent.type = "CHART_REQUEST"
    /\ chatLast.intent.originalCoinName = "pepe"
    /\ Len(chatLast.trail) = 2
    /\ ~chatLast.trail[1].ok
    /\ chatLast.trail[2].ok /\ chatLast.trail[2].results = 0
    /\ chatLast.reply.error

\* The fallback has found the chart: details failed, the search and the
\* history lookup for its first result succeeded.
C14_FallbackChart ==
    /\ chatLast.intent.type = "CHART_REQUEST"
    /\ Len(chatLast.trail) = 3
    /\ ~chatLast.trail[1].ok
    /\ chatLast.trail[2].ok /\ chatLast.trail[3].ok
    /\ chatLast.reply.showChart

\* The history lookup of the primary lookup failed after the details had
\* succeeded, and so did the history lookup for the first search result.
C14_HistoryFailedTwice ==
    /\ chatLast.intent.type = "CHART_REQUEST"
    /\ Len(chatLast.trail) = 4
    /\ chatLast.trail[1].ok /\ ~chatLast.trail[2].ok
    /\ chatLast.trail[3].ok /\ ~chatLast.trail[4].ok
    /\ chatLast.reply.error

(***************************************************************************)
(* C34.  The calls of one chart request.                                   *)
(***************************************************************************)
\* The calls made so far for a chart request are in the order the chart
\* case allows: the details of the resolved id first and only first; its
\* history second, after the details were found; the search for the typed
\* name once, right after the details or that history failed; the history
\* of the first search result last, right after a search with a result.
ChartOrder(intent, trail) ==
    /\ Len(trail) <= 4
    /\ Cardinality({i \in 1..Len(trail) : trail[i].op = "searchCoins"}) <= 1
    /\ \A i \in 1..Len(trail) :
          CASE i = 1 -> trail[i].op = "getCoinDetails" /\ trail[i].arg = intent.coinName
            [] trail[i].op = "getHistoricalData" /\ i = 2 ->
                  trail[1].ok /\ trail[i].arg = intent.coinName
            [] trail[i].op = "searchCoins" ->
                  /\ trail[i].arg = intent.originalCoinName
                  /\ ~trail[i - 1].ok
                  /\ trail[i - 1].op \in {"getCoinDetails", "getHistoricalData"}
            [] trail[i].op = "getHistoricalData" /\ i > 2 ->
                  /\ trail[i - 1].op = "searchCoins"
                  /\ trail[i - 1].ok /\ trail[i - 1].results > 0
                  /\ trail[i].arg \in Found(intent.originalCoinName)
                  /\ i = Len(trail)
            [] OTHER -> FALSE

\* C34: a chart request makes at most four calls, in the order details,
\* history, search, history of the first result; the search comes only
\* after the details or the history for the resolved id failed, once, and
\* the second history only after a search with a result.  It holds for the
\* requests answered and for those still awaiting a call.
C34_Claim ==
    /\ chatLast.intent.type = "CHART_REQUEST" =>
           /\ ChartOrder(chatLast.intent, chatLast.trail)
           /\ chatLast.trail # <<>>
           /\ (chatLast.trail[Len(chatLast.trail)].op = "searchCoins" =>
                  ~chatLast.trail[Len(chatLast.trail)].ok
                      \/ chatLast.trail[Len(chatLast.trail)].results = 0)
    /\ \A k \in 1..Len(responding) :
           responding[k].intent.type = "CHART_REQUEST" =>
               /\ ChartOrder(responding[k].intent, responding[k].trail)
               /\ Len(responding[k].trail) <= 3

\* A chart request answered with four calls: details, history (failed),
\* search, history of the first result.
C34_FourCalls ==
    /\ chatLast.intent.type = "CHART_REQUEST"
    /\ [i \in 1..Len(chatLast.trail) |-> chatLast.trail[i].op] =
           <<"getCoinDetails", "getHistoricalData", "searchCoins", "getHistoricalData">>
    /\ chatLast.reply.showChart

\* A chart request answered with two calls: the search was never issued.
C34_NoSearch ==
    /\ chatLast.intent.type = "CHART_REQUEST"
    /\ [i \in 1..Len(chatLast.trail) |-> chatLast.trail[i].op] =
           <<"getCoinDetails", "getHistoricalData">>
    /\ chatLast.reply.showChart

(***************************************************************************)
(* The voice input: speechService.startListening and stopListening, the    *)
(* events of the recognition session, handleStartListening and             *)
(* handleStopListening of ChatInterface, handleMicClick of InputArea and   *)
(* the send it delays by 500 ms, beside the typed and the clicked sends.   *)
(***************************************************************************)
MaxSessions == 2
Transcripts == {"Show me trending coins"}
VoiceMessages == {"help", "Show me trending coins"}
QuickActions == {"Show me trending coins", "What's my portfolio worth?", "help"}
SpeechErrors == {"no-speech", "aborted"}

\* The message recognition.onerror rejects with.
speechErrorMessage(e) ==
    CASE e = "no-speech" -> "No speech detected. Please try again."
      [] e = "audio-capture" -> "Microphone not accessible. Please check permissions."
      [] e = "not-allowed" -> "Microphone access denied. Please allow microphone access."
      [] e = "network" -> "Network error. Please check your connection."
      [] OTHER -> "Speech recognition error: " \o e

\* The executor of the promise startListening() returns.  With isListening
\* set it rejects at once.  Else the handlers of the recognition object are
\* replaced by those of the new promise, which leaves a promise still
\* pending with no handler to settle it, and recognition.start() is called:
\* it throws when the object has been started and its end event has not yet
\* fired.
startListening(v) ==
    LET left == v.unsettled + (IF v.promise = "pending" THEN 1 ELSE 0)
    IN  IF v.isListening
        THEN [voice |-> v, outcome |-> "rejected", message |-> "Already listening"]
        ELSE IF v.session # "none"
        THEN [voice |-> [v EXCEPT !.isListening = FALSE, !.promise = "none",
                                  !.unsettled = left],
              outcome |-> "rejected", message |-> "InvalidStateError"]
        ELSE [voice |-> [v EXCEPT !.isListening = TRUE, !.session = "active",
                                  !.promise = "pending", !.unsettled = left],
              outcome |-> "pending", message |-> ""]

\* stopListening(): recognition.stop() and isListening = false, when
\* listening.
stopListening(v) ==
    IF v.isListening THEN [v EXCEPT !.isListening = FALSE, !.session = "stopping"] ELSE v

voiceErrorMessage(text, t) ==
    [id |-> t, text |-> Text("Voice input error: ${error.message}", <<text>>), error |-> TRUE,
     isUser |-> FALSE, timestamp |-> t]

\* handleStartListening and handleMicClick after the promise has resolved
\* with a transcript: the indicators are reset and the send is set for
\* 500 ms later.
Resolved(v, transcript) ==
    [v EXCEPT !.promise = "none", !.uiListening = FALSE, !.isRecording = FALSE,
              !.timers = IF transcript # "" THEN Append(@, transcript) ELSE @,
              !.last = [call |-> "startListening", outcome |-> "resolved",
                        message |-> transcript]]

\* The same after it has rejected: the indicators are reset; the caller
\* appends the error message.
Rejected(v, text) ==
    [v EXCEPT !.promise = "none", !.uiListening = FALSE, !.isRecording = FALSE,
              !.last = [call |-> "startListening", outcome |-> "rejected", message |-> text]]

\* A click on the microphone button, enabled while isProcessing is false:
\* handleMicClick, which stops when ChatInterface shows listening and else
\* starts and awaits the transcript.
MicClick ==
    /\ ~isProcessing
    /\ IF voice.uiListening
       THEN /\ voice' = [stopListening(voice) EXCEPT !.uiListening = FALSE,
                                                      !.isRecording = FALSE]
            /\ UNCHANGED messages
       ELSE /\ voice.started < MaxSessions
            /\ LET s == startListening(voice)
                   v == [s.voice EXCEPT !.started = @ + 1]
               IN  IF s.outcome = "pending"
                   THEN /\ voice' = [v EXCEPT !.uiListening = TRUE, !.isRecording = TRUE]
                        /\ UNCHANGED messages
                   ELSE /\ voice' = Rejected(v, s.message)
                        /\ messages' = Append(messages, voiceErrorMessage(s.message, now))
    /\ UNCHANGED <<now, requests, isProcessing, responding, chatLast, portfolioVars, notChatVoice>>

\* recognition.onresult: the session has a transcript.
SpeechResult(transcript) ==
    /\ voice.session \in {"active", "stopping"}
    /\ LET v == [voice EXCEPT !.isListening = FALSE, !.session = "ending"]
       IN  voice' = IF voice.promise = "pending" THEN Resolved(v, transcript) ELSE v
    /\ UNCHANGED <<now, requests, chatVars, portfolioVars, notChatVoice>>

\* recognition.onerror.
SpeechError(e) ==
    /\ voice.session \in {"active", "stopping"}
    /\ LET v == [voice EXCEPT !.isListening = FALSE, !.session = "ending"]
       IN  IF voice.promise = "pending"
           THEN /\ voice' = Rejected(v, speechErrorMessage(e))
                /\ messages' = Append(messages, voiceErrorMessage(speechErrorMessage(e), now))
           ELSE /\ voice' = v
                /\ UNCHANGED messages
    /\ UNCHANGED <<now, requests, isProcessing, responding, chatLast, portfolioVars, notChatVoice>>

\* recognition.onend: the session is over, after a result, after an error,
\* after stop() or with nothing recognised.  The handler sets isListening
\* and settles nothing: a promise still pending stays so, and no event is
\* left that could settle it.
SpeechEnd ==
    /\ voice.session # "none"
    /\ voice' = [voice EXCEPT !.isListening = FALSE, !.session = "none",
                              !.promise = "none",
                              !.unsettled = @ + (IF voice.promise = "pending" THEN 1 ELSE 0),
                              !.last = IF voice.promise = "pending"
                                       THEN [call |-> "startListening", outcome |-> "pending",
                                             message |-> ""]
                                       ELSE @]
    /\ UNCHANGED <<now, requests, chatVars, portfolioVars, notChatVoice>>

\* The three ways into handleSendMessage.  A submit of the text typed needs
\* isProcessing false, and the textarea and the button are disabled while
\* ChatInterface shows listening; a click on a quick action needs
\* isProcessing false, and the actions are shown until the first message is
\* sent; the timeout handleMicClick set calls onSendMessage(transcript)
\* with no look at isProcessing.
Vias == {"submit", "quick", "voice"}
Send(text, via, k) ==
    /\ CASE via = "submit" -> k = 0 /\ text \in VoiceMessages /\ ~isProcessing /\ ~voice.uiListening
         [] via = "quick" -> k = 0 /\ text \in QuickActions /\ ~isProcessing /\ Len(messages) <= 1
         [] via = "voice" -> k \in 1..Len(voice.timers) /\ text = voice.timers[k]
    /\ handleSendMessage(text)
    /\ voice' = IF via = "voice"
                THEN [voice EXCEPT !.timers = [j \in 1..(Len(@) - 1) |->
                                                  IF j < k THEN @[j] ELSE @[j + 1]]]
                ELSE voice

NextVoice ==
    \/ MicClick
    \/ \E transcript \in Transcripts : SpeechResult(transcript)
    \/ \E e \in SpeechErrors : SpeechError(e)
    \/ SpeechEnd
    \/ \E text \in VoiceMessages \cup QuickActions \cup Transcripts, via \in Vias,
          k \in 0..Len(voice.timers) : Send(text, via, k)
    \/ \E k \in 1..Len(responding), outcome \in PfOutcomes : Respond(k, outcome)

SpecVoice == Init /\ [][NextVoice]_vars

\* The replies handleSendMessage has appended: the assistant messages that
\* carry the fields of a response.
Replies(log) == Cardinality({k \in 1..Len(log) : ~log[k].isUser /\ "data" \in DOMAIN log[k]})

\* Every message sent has one reply or is still being handled.
OneReplyEach == Replies(messages) + Len(responding) = UserMessages(messages)

\* C35: isProcessing is true whenever a handleSendMessage call is in flight,
\* whatever the order of submits, quick actions and delayed voice sends, and
\* every message sent has its one reply once its call has ended.
C35_Claim ==
    /\ responding # <<>> => isProcessing
    /\ OneReplyEach

\* A typed message and a transcript were both being handled; the reply to
\* one has been appended, isProcessing is false, and the other still awaits
\* its answer.
C35_FlagDropped ==
    /\ Len(responding) = 1
    /\ ~isProcessing
    /\ UserMessages(messages) = 2
    /\ Replies(messages) = 1
    /\ voice.last.outcome = "resolved"

\* While speechService is listening, startListening() rejects with 'Already
\* listening' and changes nothing.
SecondStartRejected ==
    voice.isListening =>
        startListening(voice) = [voice |-> voice, outcome |-> "rejected",
                                 message |-> "Already listening"]

\* C36: every promise of startListening() is settled once its recognition
\* session has ended, by a result, by an error, after stopListening() or
\* with nothing recognised, and then nothing is shown as listening or
\* recording; and while a session is listening a second startListening()
\* rejects with 'Already listening' and leaves the session as it is.
C36_Claim ==
    /\ voice.unsettled = 0
    /\ voice.session = "none" => (~voice.uiListening /\ ~voice.isRecording)
    /\ SecondStartRejected

\* A session has ended with nothing recognised: the promise of its
\* startListening() is pending for good, and ChatInterface and InputArea
\* still show listening and recording.
C36_NeverSettles ==
    /\ voice.session = "none"
    /\ voice.unsettled = 1
    /\ voice.last.outcome = "pending"
    /\ voice.uiListening
    /\ voice.isRecording

\* The same after a click that stopped the session: the indicators were
\* reset by the click, the promise was not settled.
C36_StoppedUnsettled ==
    /\ voice.session = "none"
    /\ voice.unsettled = 1
    /\ voice.last.outcome = "pending"
    /\ ~voice.uiListening
    /\ ~voice.isRecording
    /\ voice.started = 1

====
